---- MODULE Spec2Model ----
(***************************************************************************)
(* Concurrency-control subsystem of fable-api: the save lock               *)
(* (api/screenplays/save-lock.js), the seed lock in its two                *)
(* representations (persisted fields, in-process Map) and the restore      *)
(* orchestrator (api/screenplays/restore-with-lock.js), for ONE screenplay.*)
(* Every await of a handler is a suspension point: the store call takes    *)
(* effect in one step and the handler's continuation runs in a later one,  *)
(* so requests of different users interleave as they do on the event loop. *)
(***************************************************************************)
EXTENDS Integers, FiniteSets, Sequences, TLC

\* ------------------------------------------------------------------ bounds
\* Largest clock value (ms) the model explores.
MaxTime == 30000
\* Granularity (ms) by which the clock advances.
TickMs == 15000
\* Restore requests the model lets arrive.
MaxRestores == 2
\* Commits other writers push to the screenplay file.
MaxExternalCommits == 1

\* ------------------------------------------------------- program constants
LOCK_EXPIRY_MS == 15000
\* seed-lock.js: SEED_LOCK_TTL_MS of the environment, 15000 by default.
LOCK_TTL_MS == 15000
\* restore-with-lock.js: RESTORE_SHA_MAX_ATTEMPTS of the environment, 6 by default.
RESTORE_SHA_MAX_ATTEMPTS == 6

\* --------------------------------------------------------------- the actors
\* PocketBase user ids of the callers.
Users == {"u1", "u2", "u3"}

\* GitHub account id behind each caller's GitHub token.
GithubIdOf(u) == CASE u = "u1" -> "g1" [] u = "u2" -> "g2" [] OTHER -> "g3"

\* users.name of each caller's user record.
UserName(u) == CASE u = "u1" -> "Ann" [] u = "u2" -> "Bob" [] OTHER -> "Cy"

\* JavaScript null / undefined, and a present value.
Null == << >>
Some(x) == << x >>

\* body.lockType of an acquire request ('manual' when the body has none).
LockTypes == {"manual"}

VARIABLES
    now,            \* wall clock, ms
    recordExists,   \* a screenplay_status record exists for the screenplay
    statusRecords,  \* number of screenplay_status records stored for the screenplay
    status,         \* its fields (the defaults while no record exists)
    req,            \* per caller: the request in flight and its response
    releaseStreak,  \* history: run of successful save-lock releases by one user
    seededBy,       \* history: the user whose seed-lock release set seededAt
    seedLocks,      \* in-process Map of seed locks: this screenplay's entry
    seedTimers,     \* armed setTimeout handles of seed-lock entries (by due time)
    memGrants,      \* history: in-process seed locks granted and not released by their owner
    restoreRun,     \* per caller: the restore request in flight and its response
    restores,       \* number of restore requests that have arrived
    hpBase,         \* HP_HTTP_BASE_URL is set in the process environment
    hp,             \* realtime session service: the screenplay's room
    repo,           \* source-control host: contents of the commits of the screenplay file
    externalCommits,\* number of commits pushed by other writers
    shaCleanupJobs, \* in-process Map of convergence-poll jobs: this screenplay's entry
    jobs,           \* the job objects ever created ({ attempts, timeoutId })
    pollers         \* per scheduleRestoreShaCleanup call: its attemptClear closure

vars == << now, recordExists, statusRecords, status, req, releaseStreak, seededBy,
           seedLocks, seedTimers, memGrants,
           restoreRun, restores, hpBase, hp, repo, externalCommits, shaCleanupJobs, jobs, pollers >>

\* The state of the restore orchestrator outside the status record.
restoreVars == << restoreRun, restores, hpBase, hp, repo, externalCommits, shaCleanupJobs, jobs, pollers >>

\* What the save-lock handler / the persisted seed-lock handler / the
\* in-process seed-lock handler never touch.
seedMemVars == << seedLocks, seedTimers, memGrants >>
notSaveLock == << seededBy, seedMemVars, restoreVars >>
notSeedLock == << releaseStreak, seedMemVars, restoreVars >>
notSeedMem  == << recordExists, statusRecords, status, releaseStreak, seededBy, restoreVars >>
notRestore  == << now, req, releaseStreak, seededBy, seedMemVars >>

\* ------------------------------------------------------------- status store

\* What readScreenplayStatus returns when no record exists; also the fields a
\* freshly created record starts with.
DefaultStatus ==
    [ collaborators   |-> {},      \* ids of the entries of `collaborators`
      collaboratorIds |-> {},      \* null or [] : no local user ids
      saveLock        |-> Null,
      seedLocked      |-> FALSE,
      seedLockedBy    |-> Null,
      seedLockedAt    |-> Null,
      seededAt        |-> Null,
      hp_restore_blocked        |-> FALSE,
      hp_restore_blocked_at     |-> Null,
      hp_restore_blocked_by     |-> Null,
      latestRestoredCommitSha   |-> Null,
      latestRestoredCommitSetAt |-> Null,
      lastRestoredAt            |-> Null,
      lastRestoredBy            |-> Null,
      restoredFrom              |-> Null,
      pendingRestoreSha         |-> Null,
      restoresUpdatedAt         |-> Null,
      restoreError              |-> Null ]

\* ensureStatusRecord(screenplayId), as one step of a caller's update: the
\* record is created when the lookup finds none.
ensureStatusRecord ==
    /\ recordExists' = TRUE
    /\ statusRecords' = IF recordExists THEN statusRecords ELSE 1

\* readScreenplayStatus(screenplayId): the record, or the default object.
readScreenplayStatus == IF recordExists THEN status ELSE DefaultStatus

\* updateCollaboratorIds(screenplayId, ids) -> applyStatusUpdate: the record is
\* created when missing (ensureStatusRecord), then patched.
updateCollaboratorIds(ids) ==
    /\ ensureStatusRecord
    /\ status' = [ readScreenplayStatus EXCEPT !.collaboratorIds = ids ]

\* ------------------------------------------------------------ the requests

\* A response: the HTTP status and the keys of the JSON body the handlers use
\* (`flag` names the key that is true: success, granted or cleared).
NoResp ==
    [ status |-> 0, flag |-> "", error |-> "", reason |-> "", lockedBy |-> Null, lockExpiry |-> Null ]

\* res.status(code).json({ error: err })
Resp(code, err) == [ NoResp EXCEPT !.status = code, !.error = err ]

\* res.status(200).json({ [key]: true })
Ok(key) == [ NoResp EXCEPT !.status = 200, !.flag = key ]

\* A caller with no request in flight.  The fields other than resp are the
\* handler's locals: they exist while the request is in flight and are gone
\* when the handler returns; resp is the response the caller received.
IdleReq ==
    [ pc          |-> "done",
      api         |-> "none",
      method      |-> "",
      githubToken |-> Null,
      displayName |-> "",
      lockType    |-> "",
      snap        |-> DefaultStatus,   \* statusRecord as read
      newLock     |-> Null,            \* saveLock value about to be written
      patch       |-> Null,            \* seed-lock fields about to be written
      record      |-> 0,               \* id of the record ensureStatusRecord returned
      sha         |-> Null,            \* body.sha of a restore-status PATCH
      resp        |-> NoResp ]

\* resolveUserContext: the display name, users.name of the caller's record.
resolveUserContext(u) == UserName(u)

\* res.status(code).json(body), after which the handler returns.
Respond(body) == [ IdleReq EXCEPT !.resp = body ]

\* Mutant: the collaborator gate lets every caller through.
isUserCollaborator_anyone(statusRecord, userId) == TRUE

\* isUserCollaborator(statusRecord, userId); collaboratorsId is never written
\* by the store, so collaboratorIds is the list consulted.
isUserCollaborator(statusRecord, userId) ==
    \/ userId \in statusRecord.collaboratorIds
    \/ userId \in statusRecord.collaborators

\* maybeAddCollaboratorFromToken up to its await: TRUE when it goes on to
\* write collaboratorIds.
willAddCollaborator(statusRecord, userId, githubToken) ==
    /\ githubToken # Null
    /\ githubToken[1] \in statusRecord.collaborators
    /\ userId \notin statusRecord.collaboratorIds

\* Mutant: a lock whose expiry equals the clock still counts as held.
handleAcquireLock_inclusive(r, userId, t) ==
    LET currentLock == r.snap.saveLock IN
    IF currentLock # Null /\ currentLock[1].lockExpiry >= t
    THEN Respond([ status     |-> 409,
                   flag       |-> "",
                   error      |-> "lock_conflict",
                   reason     |-> "",
                   lockedBy   |-> Some(currentLock[1].userName),
                   lockExpiry |-> Some(currentLock[1].lockExpiry) ])
    ELSE [ r EXCEPT !.pc = "updateLock",
                    !.newLock = Some([ userId     |-> userId,
                                       userName   |-> r.displayName,
                                       lockedAt   |-> t,
                                       lockType   |-> r.lockType,
                                       lockExpiry |-> t + LOCK_EXPIRY_MS ]) ]

\* Mutant: the expiry is not looked at, any stored lock is a conflict.
handleAcquireLock_noExpiry(r, userId, t) ==
    LET currentLock == r.snap.saveLock IN
    IF currentLock # Null
    THEN Respond([ status     |-> 409,
                   flag       |-> "",
                   error      |-> "lock_conflict",
                   reason     |-> "",
                   lockedBy   |-> Some(currentLock[1].userName),
                   lockExpiry |-> Some(currentLock[1].lockExpiry) ])
    ELSE [ r EXCEPT !.pc = "updateLock",
                    !.newLock = Some([ userId     |-> userId,
                                       userName   |-> r.displayName,
                                       lockedAt   |-> t,
                                       lockType   |-> r.lockType,
                                       lockExpiry |-> t + LOCK_EXPIRY_MS ]) ]

\* handleAcquireLock up to its await: the request after the lock check made
\* at clock value t.
handleAcquireLock(r, userId, t) ==
    LET currentLock == r.snap.saveLock IN
    IF currentLock # Null /\ currentLock[1].lockExpiry > t
    THEN Respond([ status     |-> 409,
                   flag       |-> "",
                   error      |-> "lock_conflict",
                   reason     |-> "",
                   lockedBy   |-> Some(currentLock[1].userName),
                   lockExpiry |-> Some(currentLock[1].lockExpiry) ])
    ELSE [ r EXCEPT !.pc = "updateLock",
                    !.newLock = Some([ userId     |-> userId,
                                       userName   |-> r.displayName,
                                       lockedAt   |-> t,
                                       lockType   |-> r.lockType,
                                       lockExpiry |-> t + LOCK_EXPIRY_MS ]) ]

\* Mutant: the owner check is missing, any collaborator clears the lock.
handleReleaseLock_noOwnerCheck(r, userId, t) ==
    IF r.snap.saveLock = Null
    THEN Respond(Ok("success"))
    ELSE [ r EXCEPT !.pc = "updateLock", !.newLock = Null ]

\* Mutant: the owner's release answers 200 without clearing the lock.
handleReleaseLock_keepsLock(r, userId, t) ==
    LET currentLock == r.snap.saveLock IN
    IF currentLock = Null
    THEN Respond(Ok("success"))
    ELSE IF currentLock[1].userId # userId
    THEN Respond(Resp(400, "not_lock_owner"))
    ELSE Respond(Ok("success"))

\* handleReleaseLock up to its await.
handleReleaseLock(r, userId, t) ==
    LET currentLock == r.snap.saveLock IN
    IF currentLock = Null
    THEN Respond(Ok("success"))
    ELSE IF currentLock[1].userId # userId
    THEN Respond(Resp(400, "not_lock_owner"))
    ELSE [ r EXCEPT !.pc = "updateLock", !.newLock = Null ]

\* handler, lines 181-196: the collaborator gate, then the method dispatch.
saveLockDispatch(r, userId, t) ==
    IF ~isUserCollaborator(r.snap, userId)
    THEN Respond(Resp(403, "not_collaborator"))
    ELSE IF r.method = "POST" THEN handleAcquireLock(r, userId, t)
    ELSE handleReleaseLock(r, userId, t)


\* ------------------------------------------------ seed lock, persisted fields

\* isUserCollaborator(statusRecord, userId) of the seed-lock handler.
seedLockIsUserCollaborator(statusRecord, userId) ==
    \/ userId \in statusRecord.collaboratorIds
    \/ userId \in statusRecord.collaborators

\* updateScreenplayMetadata(screenplayId, patch) -> applyStatusUpdate: the
\* record is created when missing (ensureStatusRecord), then patched.
updateScreenplayMetadata(patch) ==
    /\ ensureStatusRecord
    /\ status' = [ readScreenplayStatus EXCEPT !.seedLocked   = patch.seedLocked,
                                               !.seedLockedBy = patch.seedLockedBy,
                                               !.seedLockedAt = patch.seedLockedAt,
                                               !.seededAt     = patch.seededAt ]

\* res.status(409).json({ granted: false, reason, lockedBy })
SeedDenied(why, by) == [ NoResp EXCEPT !.status = 409, !.reason = why, !.lockedBy = by ]

\* Mutant: the seededAt check is missing from the acquire.
seedLockAcquire_noSeededCheck(r, userId, t) ==
    IF r.snap.seedLocked
    THEN Respond(SeedDenied("locked", r.snap.seedLockedBy))
    ELSE [ r EXCEPT !.pc = "seedUpdate",
                    !.patch = Some([ seedLocked   |-> TRUE,
                                     seedLockedBy |-> Some(userId),
                                     seedLockedAt |-> Some(t),
                                     seededAt     |-> Null ]) ]

\* handler, POST branch up to its await (lines 100-120).
seedLockAcquire(r, userId, t) ==
    IF r.snap.seededAt # Null
    THEN Respond(SeedDenied("already_seeded", Null))
    ELSE IF r.snap.seedLocked
    THEN Respond(SeedDenied("locked", r.snap.seedLockedBy))
    ELSE [ r EXCEPT !.pc = "seedUpdate",
                    !.patch = Some([ seedLocked   |-> TRUE,
                                     seedLockedBy |-> Some(userId),
                                     seedLockedAt |-> Some(t),
                                     seededAt     |-> Null ]) ]

\* handler, DELETE branch up to its await (lines 129-147).
seedLockRelease(r, userId, t) ==
    IF ~r.snap.seedLocked
    THEN Respond(Ok("cleared"))
    ELSE IF r.snap.seedLockedBy # Null /\ r.snap.seedLockedBy # Some(userId)
    THEN Respond(Resp(403, "not_lock_owner"))
    ELSE [ r EXCEPT !.pc = "seedUpdate",
                    !.patch = Some([ seedLocked   |-> FALSE,
                                     seedLockedBy |-> Null,
                                     seedLockedAt |-> Null,
                                     seededAt     |-> Some(t) ]) ]

\* handler, lines 92-156: the collaborator gate, then the method dispatch.
seedLockDispatch(r, userId, t) ==
    IF ~seedLockIsUserCollaborator(r.snap, userId)
    THEN Respond(Resp(403, "not_collaborator"))
    ELSE IF r.method = "POST" THEN seedLockAcquire(r, userId, t)
    ELSE seedLockRelease(r, userId, t)


\* ------------------------------------------------ seed lock, in-process Map

\* Mutant: the entry is deleted and its timer left armed.
clearLock_keepsTimer(entry, timers) ==
    IF entry = Null THEN << entry, timers >>
    ELSE << Null, timers >>

\* clearLock(screenplayId, reason): the entry's timer is cancelled and the
\* entry deleted; << entry, timers >> afterwards.
clearLock(entry, timers) ==
    IF entry = Null THEN << entry, timers >>
    ELSE << Null, timers \ {entry[1].timer} >>

\* getLockStatus(screenplayId) at clock value t: an entry whose expiresAt has
\* passed is cleared on access; << entry, timers >> afterwards.
getLockStatus(entry, timers, t) ==
    IF entry # Null /\ entry[1].expiresAt <= t
    THEN clearLock(entry, timers)
    ELSE << entry, timers >>

\* ------------------------------------------------------ restore orchestrator

\* Callers that send restore requests.
RestoreUsers == {"u1", "u2"}

\* body.revisionSha of caller u's restore requests: u1 restores the first
\* commit of the branch, u2 the second.
Revisions(u) == IF u = "u1" THEN {1} ELSE {2}

\* applyStatusUpdate(screenplayId, patch): the record is created when missing
\* (ensureStatusRecord), then the fields of the patch are overwritten.
applyStatusUpdate(patch) ==
    /\ ensureStatusRecord
    /\ status' = [ f \in DOMAIN status |->
                     IF f \in DOMAIN patch THEN patch[f] ELSE readScreenplayStatus[f] ]

\* setScreenplayLock(screenplayId, lockPayload)
setScreenplayLock(lockPayload) == applyStatusUpdate(lockPayload)

\* The source-control host names a commit by its commit sha and the file's
\* content by its blob sha; the two are hashes of different objects.
CommitSha(i) == << "commit", i >>
BlobSha(content) == << "blob", content >>

\* getFileContentAtRef(owner, repo, filePath, ref, token): the content of the
\* file at commit ref.
getFileContentAtRef(ref) == repo[ref]

\* getCurrentFileMetadata(owner, repo, filePath, token).sha: the blob sha of
\* the file at the head of the branch.
getCurrentFileMetadata == BlobSha(repo[Len(repo)])

\* updateScreenplayFile(..., content, sha, ...): the host accepts the PUT only
\* when sha names the file's current blob; the new commit is the head.
updateScreenplayFileAccepted(sha) == sha = getCurrentFileMetadata
updateScreenplayFile(content) == Append(repo, content)

\* A restore response: the HTTP status and the keys of the JSON body.
NoRestoreResp ==
    [ status |-> 0, error |-> "", blockedAt |-> Null, blockedBy |-> Null,
      latestRestoredCommitSha |-> Null ]

\* res.status(code).json({ error: err })
RestoreError(code, err) == [ NoRestoreResp EXCEPT !.status = code, !.error = err ]

\* A caller with no restore request in flight; the fields other than resp are
\* the handler's locals.
IdleRun ==
    [ pc            |-> "done",
      revisionSha   |-> 0,
      startedAt     |-> 0,       \* `now` of line 292
      blockSet      |-> FALSE,   \* the await of setScreenplayLock has resolved
      cleared       |-> FALSE,   \* the await of updateScreenplayMetadata has resolved
      targetContent |-> Null,
      headSha       |-> Null,    \* headFile.sha
      commitSha     |-> Null,    \* latestCommitSha
      resp          |-> NoRestoreResp ]

\* res.status(code).json(body), after which the restore handler returns.
RestoreRespond(body) == [ IdleRun EXCEPT !.resp = body ]

\* The job the registry holds for the screenplay has its timer cancelled:
\* clearTimeout(job.timeoutId) disarms the closure waiting on that timer.
cancelTimeout(ps, timeoutId) ==
    IF timeoutId = Null THEN ps
    ELSE [ k \in DOMAIN ps |->
             IF /\ k = timeoutId[1][1]
                /\ ps[k].pc = "timer"
                /\ ps[k].timers = timeoutId[1][2]
             THEN [ ps[k] EXCEPT !.pc = "off" ]
             ELSE ps[k] ]

\* clearScheduledShaJob(key): << registry entry, closures >> afterwards.
clearScheduledShaJob(entry, ps) ==
    IF entry = Null THEN << entry, ps >>
    ELSE << Null, cancelTimeout(ps, jobs[entry[1]].timeoutId) >>

\* ------------------------------------------------------ collaborator registry

\* GitHub account ids, and the memberships the repository's collaborator list
\* can have when it is fetched: g1 and g2, or g2 alone after g1 was removed.
GithubIds == {"g1", "g2", "g3"}
Memberships == { {"g1", "g2"}, {"g2"} }

\* Callers of the collaborator endpoints.
CollabCallers == {"u1", "u2"}

\* updateCollaborators(screenplayId, collaborators, collaboratorIds): the ids
\* passed in are stored as they are (the sync handler always passes an array,
\* so buildCollaboratorIds is not consulted).
updateCollaborators(collaborators, collaboratorIds) ==
    applyStatusUpdate([ collaborators |-> collaborators, collaboratorIds |-> collaboratorIds ])

\* sync-collaborators handler, lines 165-178: the roster built from the GitHub
\* members and the collaboratorIds of the status read before, which are kept.
syncPayload(existingStatus, githubMembers) ==
    [ collaborators |-> githubMembers, collaboratorIds |-> existingStatus.collaboratorIds ]

\* validate-collaborator handler, lines 252-278, after the status read: 403
\* unless the caller's GitHub id is in the roster, else the ids to store.
validateDecide(r, pbUserId, githubId) ==
    IF githubId \notin r.snap.collaborators
    THEN Respond(Resp(403, "You are not a collaborator on this repository"))
    ELSE [ r EXCEPT !.pc = "valUpdate",
                    !.patch = Some(r.snap.collaboratorIds \cup {pbUserId}) ]

\* --------------------------------------------------------- restore status

\* restore-status handler, GET, lines 70-85: the 200 body built from the
\* status as read and the session service's answer.
restoreStatusBody(statusRecord, active) ==
    [ status                    |-> 200,
      blocked                   |-> statusRecord.hp_restore_blocked,
      blockedAt                 |-> statusRecord.hp_restore_blocked_at,
      blockedBy                 |-> statusRecord.hp_restore_blocked_by,
      latestRestoredCommitSha   |-> statusRecord.latestRestoredCommitSha,
      latestRestoredCommitSetAt |-> statusRecord.latestRestoredCommitSetAt,
      pendingRestoreSha         |-> statusRecord.pendingRestoreSha,
      restoresUpdatedAt         |-> statusRecord.restoresUpdatedAt,
      restoreError              |-> statusRecord.restoreError,
      collaborators             |-> statusRecord.collaborators,
      activeUsers               |-> active ] @@ NoResp

\* ----------------------------------------------------------------- history

\* History of releases: `user` has had `n` (1 or 2) releases answered 200, the
\* first of them a release of a lock the caller owned, and no acquire has been
\* granted since the first of them.
NoStreak == [ user |-> "", n |-> 0 ]

\* The streak after user u's request went from r to r2 in one step.
StreakAfter(u, r, r2) ==
    IF r2.pc # "done" \/ r2.resp.status # 200 THEN releaseStreak
    ELSE IF r.method = "POST" THEN NoStreak
    ELSE IF releaseStreak.user = u /\ releaseStreak.n > 0 THEN [ user |-> u, n |-> 2 ]
    ELSE IF r.snap.saveLock # Null /\ r.snap.saveLock[1].userId = u THEN [ user |-> u, n |-> 1 ]
    ELSE releaseStreak

\* ----------------------------------------------------------------- actions

\* No request is in flight.  Either the screenplay has no status record yet,
\* or its collaborators g1 and g2 were synced from GitHub and the users in
\* `ids` have validated themselves as collaborators.
InitLocks(ids) ==
    /\ now = 0
    /\ recordExists \in BOOLEAN
    /\ statusRecords = IF recordExists THEN 1 ELSE 0
    /\ status = IF recordExists
                THEN [ DefaultStatus EXCEPT !.collaborators = {"g1", "g2"},
                                            !.collaboratorIds = ids ]
                ELSE DefaultStatus
    /\ req = [ u \in Users |-> IdleReq ]
    /\ releaseStreak = NoStreak
    /\ seededBy = Null
    /\ seedLocks = Null
    /\ seedTimers = {}
    /\ memGrants = {}

\* No restore was ever requested: the room has live sessions, the branch holds
\* two commits of the screenplay file and no poll job exists.
InitRestore(bases) ==
    /\ restoreRun = [ u \in Users |-> IdleRun ]
    /\ restores = 0
    /\ hpBase \in bases
    /\ hp = [ sessions |-> TRUE, blocked |-> FALSE ]
    /\ repo = << "a", "b" >>
    /\ externalCommits = 0
    /\ shaCleanupJobs = Null
    /\ jobs = << >>
    /\ pollers = << >>

InitWith(ids) == InitLocks(ids) /\ InitRestore({TRUE})

\* u1 is a validated collaborator; u2 is one on GitHub only; u3 is an outsider.
Init == InitWith({"u1"})

\* u1 and u2 are validated collaborators; u3 is an outsider.
SeedLockInit == InitWith({"u1", "u2"})

\* The screenplay has no status record yet: nobody has synced or validated.
CollabInit == Init /\ ~recordExists

\* No request is in flight and no restore was requested.  The screenplay has
\* no status record, or a record whose pending restore marker is empty or
\* holds sha p1 with an error text (the marker is written by a component
\* outside this service; no handler here stores a non-null value).
PendingInit ==
    /\ now = 0
    /\ \/ /\ recordExists = FALSE
          /\ statusRecords = 0
          /\ status = DefaultStatus
       \/ /\ recordExists = TRUE
          /\ statusRecords = 1
          /\ \E pending \in {Null, Some("p1")} :
                status = [ DefaultStatus EXCEPT
                             !.collaborators = {"g1", "g2"},
                             !.collaboratorIds = {"u1"},
                             !.pendingRestoreSha = pending,
                             !.restoreError = IF pending = Null THEN Null
                                              ELSE Some("restore_failed") ]
    /\ req = [ u \in Users |-> IdleReq ]
    /\ releaseStreak = NoStreak
    /\ seededBy = Null
    /\ seedLocks = Null
    /\ seedTimers = {}
    /\ memGrants = {}
    /\ InitRestore({TRUE})

\* A restore by u1 died after it wrote the block and evicted the sessions:
\* the block, the blocked room, a pending marker and its error are left behind.
StaleBlockInit ==
    /\ now = 0
    /\ recordExists = TRUE
    /\ statusRecords = 1
    /\ status = [ DefaultStatus EXCEPT
                   !.collaborators = {"g1", "g2"},
                   !.collaboratorIds = {"u1"},
                   !.hp_restore_blocked = TRUE,
                   !.hp_restore_blocked_at = Some(0),
                   !.hp_restore_blocked_by = Some("u1"),
                   !.pendingRestoreSha = Some("p1"),
                   !.restoreError = Some("restore_failed") ]
    /\ req = [ u \in Users |-> IdleReq ]
    /\ releaseStreak = NoStreak
    /\ seededBy = Null
    /\ seedLocks = Null
    /\ seedTimers = {}
    /\ memGrants = {}
    /\ restoreRun = [ u \in Users |-> IdleRun ]
    /\ restores = 0
    /\ hpBase = TRUE
    /\ hp = [ sessions |-> FALSE, blocked |-> TRUE ]
    /\ repo = << "a", "b" >>
    /\ externalCommits = 0
    /\ shaCleanupJobs = Null
    /\ jobs = << >>
    /\ pollers = << >>

\* u1 is a validated collaborator; the session service is configured or not.
RestoreInit == InitLocks({"u1"}) /\ InitRestore(BOOLEAN)

\* Time passes.
Tick ==
    /\ now + TickMs <= MaxTime
    /\ now' = now + TickMs
    /\ UNCHANGED << recordExists, statusRecords, status, req, releaseStreak, seededBy, seedMemVars, restoreVars >>

\* save-lock handler, lines 131-168: an authenticated POST or DELETE arrives.
saveLockHandler(u) ==
    /\ req[u].pc = "done"
    /\ \E m \in {"POST", "DELETE"}, tok \in {Null, Some(GithubIdOf(u))},
          lt \in LockTypes :
          req' = [ req EXCEPT ![u] =
                     [ IdleReq EXCEPT !.pc = "fetch", !.api = "save-lock", !.method = m,
                                      !.githubToken = tok, !.displayName = resolveUserContext(u),
                                      !.lockType = IF m = "POST" THEN lt ELSE "" ] ]
    /\ UNCHANGED << now, recordExists, statusRecords, status, releaseStreak, notSaveLock >>

\* fetchScreenplayStatus: the admin-backed read, else the user-context read
\* (null on 404), else the error reaches the handler's catch.
fetchScreenplayStatus(u) ==
    /\ req[u].pc = "fetch" /\ req[u].api = "save-lock"
    /\ \E path \in {"admin", "user", "error"} :
          req' = [ req EXCEPT ![u] =
                     IF path = "admin"
                     THEN [ @ EXCEPT !.pc = "auth", !.snap = readScreenplayStatus ]
                     ELSE IF path = "user"
                     THEN IF recordExists
                          THEN [ @ EXCEPT !.pc = "auth", !.snap = status ]
                          ELSE Respond(Resp(404, "Screenplay status not found"))
                     ELSE Respond(Resp(500, "Internal server error")) ]
    /\ UNCHANGED << now, recordExists, statusRecords, status, releaseStreak, notSaveLock >>

\* handler, lines 176-194: the continuation after the status read.
saveLockAuthorize(u) ==
    /\ req[u].pc = "auth" /\ req[u].api = "save-lock"
    /\ req' = [ req EXCEPT ![u] =
                  IF /\ ~isUserCollaborator(@.snap, u)
                     /\ willAddCollaborator(@.snap, u, @.githubToken)
                  THEN [ @ EXCEPT !.pc = "addCollab" ]
                  ELSE saveLockDispatch(@, u, now) ]
    /\ releaseStreak' = StreakAfter(u, req[u], req'[u])
    /\ UNCHANGED << now, recordExists, statusRecords, status, notSaveLock >>

\* maybeAddCollaboratorFromToken, line 124: the store write, or its failure.
maybeAddCollaboratorFromToken(u) ==
    /\ req[u].pc = "addCollab"
    /\ \/ /\ updateCollaboratorIds(req[u].snap.collaboratorIds \cup {u})
          /\ req' = [ req EXCEPT ![u] =
                        [ @ EXCEPT !.pc = "added",
                                   !.snap = [ req[u].snap EXCEPT !.collaboratorIds =
                                                req[u].snap.collaboratorIds \cup {u} ] ] ]
       \/ /\ req' = [ req EXCEPT ![u] = Respond(Resp(500, "Internal server error")) ]
          /\ UNCHANGED << recordExists, statusRecords, status >>
    /\ UNCHANGED << now, releaseStreak, notSaveLock >>

\* handler, lines 181-194: the continuation after the collaborator write.
saveLockAfterAdd(u) ==
    /\ req[u].pc = "added"
    /\ req' = [ req EXCEPT ![u] = saveLockDispatch(@, u, now) ]
    /\ releaseStreak' = StreakAfter(u, req[u], req'[u])
    /\ UNCHANGED << now, recordExists, statusRecords, status, notSaveLock >>

\* handleAcquireLock, lines 235-248 / handleReleaseLock, lines 270-279: the
\* store update and the 200 response, or the update's failure (500).
saveLockUpdate(u) ==
    /\ req[u].pc = "updateLock"
    /\ \/ /\ recordExists
          /\ status' = [ status EXCEPT !.saveLock = req[u].newLock ]
          /\ req' = [ req EXCEPT ![u] =
                        Respond([ Ok("success") EXCEPT !.lockExpiry =
                                    IF req[u].method = "POST"
                                    THEN Some(req[u].newLock[1].lockExpiry)
                                    ELSE Null ]) ]
          /\ releaseStreak' = StreakAfter(u, req[u], req'[u])
       \/ /\ req' = [ req EXCEPT ![u] = Respond(Resp(500, "Internal server error")) ]
          /\ UNCHANGED << status, releaseStreak >>
    /\ UNCHANGED << now, recordExists, statusRecords, notSaveLock >>

SaveLockNext ==
    \/ Tick
    \/ \E u \in Users : saveLockHandler(u)
    \/ \E u \in Users : fetchScreenplayStatus(u)
    \/ \E u \in Users : saveLockAuthorize(u)
    \/ \E u \in Users : maybeAddCollaboratorFromToken(u)
    \/ \E u \in Users : saveLockAfterAdd(u)
    \/ \E u \in Users : saveLockUpdate(u)

\* Persisted seed-lock handler, lines 48-89: an authenticated POST or DELETE arrives.
seedLockHandler(u) ==
    /\ req[u].pc = "done"
    /\ \E m \in {"POST", "DELETE"} :
          req' = [ req EXCEPT ![u] =
                     [ IdleReq EXCEPT !.pc = "seedFetch", !.api = "seed-lock", !.method = m ] ]
    /\ UNCHANGED << now, recordExists, statusRecords, status, seededBy, notSeedLock >>

\* handler, line 91: readScreenplayStatus, or its error reaching the catch.
seedLockReadStatus(u) ==
    /\ req[u].pc = "seedFetch"
    /\ \/ req' = [ req EXCEPT ![u] = [ @ EXCEPT !.pc = "seedAuth", !.snap = readScreenplayStatus ] ]
       \/ req' = [ req EXCEPT ![u] = Respond(Resp(500, "Internal server error")) ]
    /\ UNCHANGED << now, recordExists, statusRecords, status, seededBy, notSeedLock >>

\* handler, lines 92-147: the continuation after the status read.
seedLockDecide(u) ==
    /\ req[u].pc = "seedAuth"
    /\ req' = [ req EXCEPT ![u] = seedLockDispatch(@, u, now) ]
    /\ UNCHANGED << now, recordExists, statusRecords, status, seededBy, notSeedLock >>

\* handler, lines 115-126 / 142-153: the store update and the 200 response,
\* or the update's failure (500).
seedLockUpdate(u) ==
    /\ req[u].pc = "seedUpdate"
    /\ \/ /\ updateScreenplayMetadata(req[u].patch[1])
          /\ req' = [ req EXCEPT ![u] =
                        Respond(Ok(IF req[u].method = "POST" THEN "granted" ELSE "cleared")) ]
          /\ seededBy' = IF req[u].method = "DELETE" THEN Some(u) ELSE Null
       \/ /\ req' = [ req EXCEPT ![u] = Respond(Resp(500, "Internal server error")) ]
          /\ UNCHANGED << recordExists, statusRecords, status, seededBy >>
    /\ UNCHANGED << now, notSeedLock >>

SeedLockNext ==
    \/ Tick
    \/ \E u \in Users : seedLockHandler(u)
    \/ \E u \in Users : seedLockReadStatus(u)
    \/ \E u \in Users : seedLockDecide(u)
    \/ \E u \in Users : seedLockUpdate(u)


\* In-process seed-lock handler, lines 61-102: an authenticated POST or DELETE arrives.
seedMemHandler(u) ==
    /\ req[u].pc = "done"
    /\ \E m \in {"POST", "DELETE"} :
          req' = [ req EXCEPT ![u] =
                     [ IdleReq EXCEPT !.pc = "memFetch", !.api = "seed-lock-mem", !.method = m ] ]
    /\ UNCHANGED << now, seedMemVars, notSeedMem >>

\* Mutant: the release does not compare the lock's owner with the caller.
seedMemRun_anyoneReleases(u) ==
    /\ req[u].pc = "memFetch"
    /\ LET got   == getLockStatus(seedLocks, seedTimers, now)
           lock  == got[1]
           armed == got[2]
       IN  \/ /\ req[u].method = "POST"
              /\ IF lock # Null
                 THEN /\ req' = [ req EXCEPT ![u] =
                                    Respond(SeedDenied("locked", Some(lock[1].lockedBy))) ]
                      /\ seedLocks' = lock
                      /\ seedTimers' = armed
                      /\ UNCHANGED memGrants
                 ELSE /\ seedLocks' = Some([ lockedBy  |-> u,
                                             lockedAt  |-> now,
                                             expiresAt |-> now + LOCK_TTL_MS,
                                             timer     |-> now + LOCK_TTL_MS ])
                      /\ seedTimers' = armed \cup {now + LOCK_TTL_MS}
                      /\ req' = [ req EXCEPT ![u] = Respond(Ok("granted")) ]
                      /\ memGrants' = memGrants \cup
                                        { [ user |-> u, from |-> now, until |-> now + LOCK_TTL_MS ] }
           \/ /\ req[u].method = "DELETE"
              /\ seedLocks' = clearLock(lock, armed)[1]
              /\ seedTimers' = clearLock(lock, armed)[2]
              /\ req' = [ req EXCEPT ![u] = Respond(Ok("cleared")) ]
              /\ memGrants' = { g \in memGrants : g.user # u }
           \/ /\ req' = [ req EXCEPT ![u] = Respond(Resp(500, "Internal server error")) ]
              /\ UNCHANGED seedMemVars
    /\ UNCHANGED << now, notSeedMem >>

\* handler, lines 104-164: readScreenplayStatus returns (its result is only
\* tested for null, which it never is) and the lock logic runs without a
\* further await; or the read throws and the catch answers 500.
seedMemRun(u) ==
    /\ req[u].pc = "memFetch"
    /\ LET got   == getLockStatus(seedLocks, seedTimers, now)
           lock  == got[1]
           armed == got[2]
       IN  \/ /\ req[u].method = "POST"
              /\ IF lock # Null
                 THEN /\ req' = [ req EXCEPT ![u] =
                                    Respond(SeedDenied("locked", Some(lock[1].lockedBy))) ]
                      /\ seedLocks' = lock
                      /\ seedTimers' = armed
                      /\ UNCHANGED memGrants
                 ELSE /\ seedLocks' = Some([ lockedBy  |-> u,
                                             lockedAt  |-> now,
                                             expiresAt |-> now + LOCK_TTL_MS,
                                             timer     |-> now + LOCK_TTL_MS ])
                      /\ seedTimers' = armed \cup {now + LOCK_TTL_MS}
                      /\ req' = [ req EXCEPT ![u] = Respond(Ok("granted")) ]
                      /\ memGrants' = memGrants \cup
                                        { [ user |-> u, from |-> now, until |-> now + LOCK_TTL_MS ] }
           \/ /\ req[u].method = "DELETE"
              /\ IF lock = Null
                 THEN /\ req' = [ req EXCEPT ![u] = Respond(Ok("cleared")) ]
                      /\ seedLocks' = lock
                      /\ seedTimers' = armed
                      /\ UNCHANGED memGrants
                 ELSE IF lock[1].lockedBy # u
                 THEN /\ req' = [ req EXCEPT ![u] = Respond(Resp(403, "not_lock_owner")) ]
                      /\ seedLocks' = lock
                      /\ seedTimers' = armed
                      /\ UNCHANGED memGrants
                 ELSE /\ seedLocks' = clearLock(lock, armed)[1]
                      /\ seedTimers' = clearLock(lock, armed)[2]
                      /\ req' = [ req EXCEPT ![u] = Respond(Ok("cleared")) ]
                      /\ memGrants' = { g \in memGrants : g.user # u }
           \/ /\ req' = [ req EXCEPT ![u] = Respond(Resp(500, "Internal server error")) ]
              /\ UNCHANGED seedMemVars
    /\ UNCHANGED << now, notSeedMem >>

\* scheduleLockTimeout's callback: a timer that is due fires and clears
\* whatever entry the Map holds for the screenplay.
scheduleLockTimeout ==
    /\ \E due \in seedTimers :
          /\ due <= now
          /\ seedLocks' = clearLock(seedLocks, seedTimers \ {due})[1]
          /\ seedTimers' = clearLock(seedLocks, seedTimers \ {due})[2]
    /\ UNCHANGED << now, req, memGrants, notSeedMem >>

SeedMemNext ==
    \/ Tick
    \/ \E u \in Users : seedMemHandler(u)
    \/ \E u \in Users : seedMemRun(u)
    \/ scheduleLockTimeout


\* ----------------------------------------------------- collaborator registry

\* What the collaborator endpoints never touch.
notCollab == << now, releaseStreak, seededBy, seedMemVars, restoreVars >>

\* sync-collaborators handler, lines 120-157: an authenticated POST arrives.
syncHandler(u) ==
    /\ req[u].pc = "done"
    /\ req' = [ req EXCEPT ![u] =
                  [ IdleReq EXCEPT !.pc = "syncRead", !.api = "sync-collaborators",
                                   !.method = "POST" ] ]
    /\ UNCHANGED << recordExists, statusRecords, status, notCollab >>

\* handler, line 157: readScreenplayStatus returns, or throws (500).
syncReadStatus(u) ==
    /\ req[u].pc = "syncRead"
    /\ \/ req' = [ req EXCEPT ![u] = [ @ EXCEPT !.pc = "syncFetch", !.snap = readScreenplayStatus ] ]
       \/ req' = [ req EXCEPT ![u] = Respond(Resp(500, "Failed to sync collaborators")) ]
    /\ UNCHANGED << recordExists, statusRecords, status, notCollab >>

\* handler, lines 159-178: the repository's collaborators arrive and the
\* payload is built; or GitHub refuses (403, 404) or fails (500).
syncFetchGitHub(u) ==
    /\ req[u].pc = "syncFetch"
    /\ \/ \E githubMembers \in Memberships :
            req' = [ req EXCEPT ![u] =
                       [ @ EXCEPT !.pc = "syncUpdate",
                                  !.patch = Some(syncPayload(req[u].snap, githubMembers)) ] ]
       \/ \E e \in { Resp(403, "Unable to fetch collaborators from GitHub"),
                      Resp(404, "Repository not found"),
                      Resp(500, "Failed to sync collaborators") } :
            req' = [ req EXCEPT ![u] = Respond(e) ]
    /\ UNCHANGED << recordExists, statusRecords, status, notCollab >>

\* handler, lines 178-189: updateCollaborators takes effect and the handler
\* answers 200; or the update throws.
syncUpdate(u) ==
    /\ req[u].pc = "syncUpdate"
    /\ \/ /\ updateCollaborators(req[u].patch[1].collaborators, req[u].patch[1].collaboratorIds)
          /\ req' = [ req EXCEPT ![u] = Respond([ NoResp EXCEPT !.status = 200 ]) ]
       \/ /\ req' = [ req EXCEPT ![u] = Respond(Resp(500, "Failed to sync collaborators")) ]
          /\ UNCHANGED << recordExists, statusRecords, status >>
    /\ UNCHANGED notCollab

\* validate-collaborator handler, lines 205-245: an authenticated POST with
\* the caller's GitHub token arrives.
validateHandler(u) ==
    /\ req[u].pc = "done"
    /\ req' = [ req EXCEPT ![u] =
                  [ IdleReq EXCEPT !.pc = "valGithub", !.api = "validate-collaborator",
                                   !.method = "POST",
                                   !.githubToken = Some(GithubIdOf(u)) ] ]
    /\ UNCHANGED << recordExists, statusRecords, status, notCollab >>

\* handler, lines 246-252: GitHub names the account behind the token, or
\* rejects it (401).
validateGitHubToken(u) ==
    /\ req[u].pc = "valGithub"
    /\ \/ req' = [ req EXCEPT ![u].pc = "valRead" ]
       \/ req' = [ req EXCEPT ![u] = Respond(Resp(401, "Invalid or expired GitHub token")) ]
    /\ UNCHANGED << recordExists, statusRecords, status, notCollab >>

\* handler, lines 252-280: readScreenplayStatus returns and the roster is
\* consulted; or the read throws.
validateReadStatus(u) ==
    /\ req[u].pc = "valRead"
    /\ \/ req' = [ req EXCEPT ![u] =
                     validateDecide([ @ EXCEPT !.snap = readScreenplayStatus ], u,
                                    req[u].githubToken[1]) ]
       \/ req' = [ req EXCEPT ![u] = Respond(Resp(500, "Failed to validate collaborator")) ]
    /\ UNCHANGED << recordExists, statusRecords, status, notCollab >>

\* handler, lines 280-293: updateCollaboratorIds takes effect and the handler
\* answers 200; or the update throws.
validateUpdate(u) ==
    /\ req[u].pc = "valUpdate"
    /\ \/ /\ updateCollaboratorIds(req[u].patch[1])
          /\ req' = [ req EXCEPT ![u] = Respond(Ok("success")) ]
       \/ /\ req' = [ req EXCEPT ![u] = Respond(Resp(500, "Failed to validate collaborator")) ]
          /\ UNCHANGED << recordExists, statusRecords, status >>
    /\ UNCHANGED notCollab

\* The collaborator endpoints and the save-lock handler with its self-add.
CollabNext ==
    \/ \E u \in CollabCallers : syncHandler(u)
    \/ \E u \in CollabCallers : syncReadStatus(u)
    \/ \E u \in CollabCallers : syncFetchGitHub(u)
    \/ \E u \in CollabCallers : syncUpdate(u)
    \/ \E u \in CollabCallers : validateHandler(u)
    \/ \E u \in CollabCallers : validateGitHubToken(u)
    \/ \E u \in CollabCallers : validateReadStatus(u)
    \/ \E u \in CollabCallers : validateUpdate(u)
    \/ \E u \in CollabCallers : saveLockHandler(u)
    \/ \E u \in CollabCallers : fetchScreenplayStatus(u)
    \/ \E u \in CollabCallers : saveLockAuthorize(u)
    \/ \E u \in CollabCallers : maybeAddCollaboratorFromToken(u)
    \/ \E u \in CollabCallers : saveLockAfterAdd(u)
    \/ \E u \in CollabCallers : saveLockUpdate(u)

\* ----------------------------------------------------------- restore status

\* What the restore-status GET never touches.
notRestoreStatus == << now, recordExists, statusRecords, status, releaseStreak, seededBy, seedMemVars, restoreVars >>

\* restore-status handler, lines 30-63: an authenticated GET arrives and the
\* scripts record is looked up (404 when there is none for the caller).
restoreStatusHandler(u) ==
    /\ req[u].pc = "done"
    /\ \/ req' = [ req EXCEPT ![u] =
                     [ IdleReq EXCEPT !.pc = "rsRead", !.api = "restore-status", !.method = "GET" ] ]
       \/ req' = [ req EXCEPT ![u] = Respond(Resp(404, "Screenplay not found")) ]
    /\ UNCHANGED notRestoreStatus

\* Mutant: the GET reads through ensureStatusRecord, creating the record.
restoreStatusReadStatus_ensures(u) ==
    /\ req[u].pc = "rsRead"
    /\ req' = [ req EXCEPT ![u] = [ @ EXCEPT !.pc = "rsHp", !.snap = readScreenplayStatus ] ]
    /\ ensureStatusRecord
    /\ UNCHANGED << now, status, releaseStreak, seededBy, seedMemVars, restoreVars >>

\* handler, line 64: readScreenplayStatus returns, or throws (500).
restoreStatusReadStatus(u) ==
    /\ req[u].pc = "rsRead"
    /\ \/ req' = [ req EXCEPT ![u] = [ @ EXCEPT !.pc = "rsHp", !.snap = readScreenplayStatus ] ]
       \/ req' = [ req EXCEPT ![u] = Respond(Resp(500, "Failed to load restore status")) ]
    /\ UNCHANGED notRestoreStatus

\* fetchHpSessionStatus, lines 10-28, and handler lines 66-85: the session
\* service tells whether the room has users (nothing without a base URL or
\* when the call fails) and the handler answers 200.
restoreStatusRespond(u) ==
    /\ req[u].pc = "rsHp"
    /\ \E ok \in BOOLEAN :
          req' = [ req EXCEPT ![u] =
                     Respond(restoreStatusBody(req[u].snap, hpBase /\ ok /\ hp.sessions)) ]
    /\ UNCHANGED notRestoreStatus

\* ---------------------------------------------- restore status: clear pending

\* Shas a pending restore marker or a PATCH body can carry.
PendingShas == {"p1", "p2"}

\* restore-status handler, PATCH, lines 101-108 and 123-128: the 200 body.
pendingCleared(updatedAt) ==
    [ status            |-> 200,
      pendingRestoreSha |-> Null,
      restoreError      |-> Null,
      restoresUpdatedAt |-> updatedAt ] @@ NoResp

\* handler, PATCH, lines 111-115: the 409 body.
pendingMismatch(currentSha) ==
    [ status            |-> 409,
      error             |-> "Pending SHA mismatch",
      pendingRestoreSha |-> currentSha ] @@ NoResp

\* Mutant: the sha of the request is not compared with the stored one.
clearPendingDecide_ignoresSha(r, statusRecord) ==
    IF statusRecord.pendingRestoreSha = Null
    THEN Respond(pendingCleared(statusRecord.restoresUpdatedAt))
    ELSE [ r EXCEPT !.pc = "rpUpdate" ]

\* handler, PATCH, lines 99-117, after the status read: nothing pending is
\* answered 200, another sha than the stored one 409; otherwise
\* updateScreenplayMetadata is issued.
clearPendingDecide(r, statusRecord) ==
    IF statusRecord.pendingRestoreSha = Null
    THEN Respond(pendingCleared(statusRecord.restoresUpdatedAt))
    ELSE IF r.sha # Null /\ r.sha # statusRecord.pendingRestoreSha
    THEN Respond(pendingMismatch(statusRecord.pendingRestoreSha))
    ELSE [ r EXCEPT !.pc = "rpUpdate" ]

\* handler, lines 31-97: an authenticated PATCH arrives; without clearPending
\* it is answered 400, otherwise readScreenplayStatus is issued.
restoreStatusPatchHandler(u) ==
    /\ req[u].pc = "done"
    /\ \/ \E sha \in {Null} \cup { Some(p) : p \in PendingShas } :
            req' = [ req EXCEPT ![u] =
                       [ IdleReq EXCEPT !.pc = "rpRead", !.api = "restore-status",
                                        !.method = "PATCH", !.sha = sha ] ]
       \/ req' = [ req EXCEPT ![u] = Respond(Resp(400, "Invalid request")) ]
    /\ UNCHANGED notRestoreStatus

\* handler, PATCH, lines 98-117: readScreenplayStatus returns and the request
\* is decided, or the read throws (500).
restoreStatusPatchRead(u) ==
    /\ req[u].pc = "rpRead"
    /\ \/ req' = [ req EXCEPT ![u] = clearPendingDecide(@, readScreenplayStatus) ]
       \/ req' = [ req EXCEPT ![u] = Respond(Resp(500, "Failed to update restore status")) ]
    /\ UNCHANGED notRestoreStatus

\* handler, PATCH, lines 117-136: updateScreenplayMetadata takes effect and
\* the handler answers 200, or the update throws (500).
restoreStatusPatchUpdate(u) ==
    /\ req[u].pc = "rpUpdate"
    /\ \/ /\ applyStatusUpdate([ pendingRestoreSha |-> Null,
                                 restoreError      |-> Null,
                                 restoresUpdatedAt |-> Some(now) ])
          /\ req' = [ req EXCEPT ![u] = Respond(pendingCleared(Some(now))) ]
       \/ /\ req' = [ req EXCEPT ![u] = Respond(Resp(500, "Failed to update restore status")) ]
          /\ UNCHANGED << recordExists, statusRecords, status >>
    /\ UNCHANGED << now, releaseStreak, seededBy, seedMemVars, restoreVars >>

\* ------------------------------------------------------------------ restore

\* The frame of a step of u's restore run that only changes the run itself.
restoreLocal == << recordExists, statusRecords, status, restores, hpBase, hp, repo, externalCommits,
                   shaCleanupJobs, jobs, pollers, notRestore >>

\* Mutant: the block of another restore is not looked at.
restoreConflictCheck_ignoresBlock(r, statusRecord) == [ r EXCEPT !.pc = "setLock" ]

\* Mutant: the sessions are destroyed before the block is written.
restoreConflictCheck_evictsFirst(r, statusRecord) ==
    IF statusRecord.hp_restore_blocked
    THEN RestoreRespond([ NoRestoreResp EXCEPT
                            !.status = 409,
                            !.error = "Restore already in progress",
                            !.blockedAt = statusRecord.hp_restore_blocked_at,
                            !.blockedBy = statusRecord.hp_restore_blocked_by ])
    ELSE [ r EXCEPT !.pc = "destroy" ]

\* handler, lines 311-319: a blocked document is answered 409 with the block
\* as read; otherwise setScreenplayLock is issued.
restoreConflictCheck(r, statusRecord) ==
    IF statusRecord.hp_restore_blocked
    THEN RestoreRespond([ NoRestoreResp EXCEPT
                            !.status = 409,
                            !.error = "Restore already in progress",
                            !.blockedAt = statusRecord.hp_restore_blocked_at,
                            !.blockedBy = statusRecord.hp_restore_blocked_by ])
    ELSE [ r EXCEPT !.pc = "setLock" ]

\* restore handler, lines 252-308: an authenticated POST with its body arrives
\* and the scripts record is looked up (404 when there is none for the caller).
restoreHandler(u) ==
    /\ u \in RestoreUsers
    /\ restoreRun[u].pc = "done"
    /\ restores < MaxRestores
    /\ restores' = restores + 1
    /\ \/ \E rev \in Revisions(u) :
            restoreRun' = [ restoreRun EXCEPT ![u] =
                              [ IdleRun EXCEPT !.pc = "readStatus",
                                               !.revisionSha = rev,
                                               !.startedAt = now ] ]
       \/ restoreRun' = [ restoreRun EXCEPT ![u] =
                            RestoreRespond(RestoreError(404, "Screenplay not found")) ]
    /\ UNCHANGED << recordExists, statusRecords, status, hpBase, hp, repo, externalCommits,
                    shaCleanupJobs, jobs, pollers, notRestore >>

\* handler, lines 310-319: readScreenplayStatus returns; a blocked document is
\* answered 409, otherwise setScreenplayLock is issued.  Or the read throws.
restoreReadStatus(u) ==
    /\ restoreRun[u].pc = "readStatus"
    /\ \/ restoreRun' = [ restoreRun EXCEPT ![u] = restoreConflictCheck(@, readScreenplayStatus) ]
       \/ restoreRun' = [ restoreRun EXCEPT ![u] = RestoreRespond(RestoreError(500, "store")) ]
    /\ UNCHANGED restoreLocal

\* handler, lines 319-330: setScreenplayLock takes effect and destroyHpSessions
\* is issued.  Or the update throws.
restoreSetLock(u) ==
    /\ restoreRun[u].pc = "setLock"
    /\ \/ /\ setScreenplayLock([ hp_restore_blocked    |-> TRUE,
                                 hp_restore_blocked_at |-> Some(restoreRun[u].startedAt),
                                 hp_restore_blocked_by |-> Some(u) ])
          /\ restoreRun' = [ restoreRun EXCEPT ![u].pc = "destroy", ![u].blockSet = TRUE ]
       \/ /\ restoreRun' = [ restoreRun EXCEPT ![u] = RestoreRespond(RestoreError(500, "store")) ]
          /\ UNCHANGED << recordExists, statusRecords, status >>
    /\ UNCHANGED << restores, hpBase, hp, repo, externalCommits, shaCleanupJobs, jobs, pollers,
                    notRestore >>

\* Mutant: a failed eviction is compensated by clearing the block.
destroyHpSessions_unblocksOnFailure(u) ==
    /\ restoreRun[u].pc = "destroy"
    /\ \/ /\ ~hpBase
          /\ restoreRun' = [ restoreRun EXCEPT ![u].pc = "readTarget" ]
          /\ UNCHANGED << recordExists, statusRecords, status, hp >>
       \/ /\ hpBase
          /\ hp' = [ sessions |-> FALSE, blocked |-> TRUE ]
          /\ restoreRun' = [ restoreRun EXCEPT ![u].pc = "readTarget" ]
          /\ UNCHANGED << recordExists, statusRecords, status >>
       \/ /\ hpBase
          /\ restoreRun' = [ restoreRun EXCEPT ![u] =
                               RestoreRespond(RestoreError(500, "HP destroy failed")) ]
          /\ applyStatusUpdate([ hp_restore_blocked    |-> FALSE,
                                 hp_restore_blocked_at |-> Null,
                                 hp_restore_blocked_by |-> Null ])
          /\ UNCHANGED hp
    /\ UNCHANGED << restores, hpBase, repo, externalCommits,
                    shaCleanupJobs, jobs, pollers, notRestore >>

\* destroyHpSessions, lines 47-63, and handler lines 327-340: without a base
\* URL nothing is sent; otherwise the room's sessions are destroyed and the
\* room blocked, or the call fails and its error reaches the handler's catch.
\* On return getFileContentAtRef is issued.
destroyHpSessions(u) ==
    /\ restoreRun[u].pc = "destroy"
    /\ \/ /\ ~hpBase
          /\ restoreRun' = [ restoreRun EXCEPT ![u].pc = "readTarget" ]
          /\ UNCHANGED hp
       \/ /\ hpBase
          /\ hp' = [ sessions |-> FALSE, blocked |-> TRUE ]
          /\ restoreRun' = [ restoreRun EXCEPT ![u].pc = "readTarget" ]
       \/ /\ hpBase
          /\ restoreRun' = [ restoreRun EXCEPT ![u] =
                               RestoreRespond(RestoreError(500, "HP destroy failed")) ]
          /\ UNCHANGED hp
    /\ UNCHANGED << recordExists, statusRecords, status, restores, hpBase, repo, externalCommits,
                    shaCleanupJobs, jobs, pollers, notRestore >>

\* handler, lines 334-346: the content at the target revision arrives and
\* getCurrentFileMetadata is issued; or the read fails (rethrown, line 363).
restoreReadTarget(u) ==
    /\ restoreRun[u].pc = "readTarget"
    /\ \/ restoreRun' = [ restoreRun EXCEPT ![u] =
            [ @ EXCEPT !.pc = "readHead",
                       !.targetContent = Some(getFileContentAtRef(restoreRun[u].revisionSha)) ] ]
       \/ restoreRun' = [ restoreRun EXCEPT ![u] =
            RestoreRespond(RestoreError(500, "Failed to load file at revision")) ]
    /\ UNCHANGED restoreLocal

\* handler, lines 341-357: the head metadata arrives and updateScreenplayFile
\* is issued with headFile.sha; or the read fails.
restoreReadHead(u) ==
    /\ restoreRun[u].pc = "readHead"
    /\ \/ restoreRun' = [ restoreRun EXCEPT ![u] =
            [ @ EXCEPT !.pc = "putFile", !.headSha = Some(getCurrentFileMetadata) ] ]
       \/ restoreRun' = [ restoreRun EXCEPT ![u] =
            RestoreRespond(RestoreError(500, "Failed to load current screenplay content")) ]
    /\ UNCHANGED restoreLocal

\* Mutant: a rejected PUT is compensated by clearing the block.
restorePutFile_unblocksOnFailure(u) ==
    /\ restoreRun[u].pc = "putFile"
    /\ \/ /\ updateScreenplayFileAccepted(restoreRun[u].headSha[1])
          /\ repo' = updateScreenplayFile(restoreRun[u].targetContent[1])
          /\ restoreRun' = [ restoreRun EXCEPT ![u] =
                [ @ EXCEPT !.pc = "updateMetadata",
                           !.commitSha = Some(CommitSha(Len(repo) + 1)) ] ]
          /\ UNCHANGED << recordExists, statusRecords, status >>
       \/ /\ restoreRun' = [ restoreRun EXCEPT ![u] =
                RestoreRespond(RestoreError(500, "Failed to update screenplay content")) ]
          /\ applyStatusUpdate([ hp_restore_blocked    |-> FALSE,
                                 hp_restore_blocked_at |-> Null,
                                 hp_restore_blocked_by |-> Null ])
          /\ UNCHANGED repo
    /\ UNCHANGED << restores, hpBase, hp, externalCommits,
                    shaCleanupJobs, jobs, pollers, notRestore >>

\* Mutant: the PUT carries the sha of the head at the time of the write, not
\* the one the run read.
restorePutFile_currentHead(u) ==
    /\ restoreRun[u].pc = "putFile"
    /\ \/ /\ repo' = updateScreenplayFile(restoreRun[u].targetContent[1])
          /\ restoreRun' = [ restoreRun EXCEPT ![u] =
                [ @ EXCEPT !.pc = "updateMetadata",
                           !.commitSha = Some(CommitSha(Len(repo) + 1)) ] ]
       \/ /\ restoreRun' = [ restoreRun EXCEPT ![u] =
                RestoreRespond(RestoreError(500, "Failed to update screenplay content")) ]
          /\ UNCHANGED repo
    /\ UNCHANGED << recordExists, statusRecords, status, restores, hpBase, hp, externalCommits,
                    shaCleanupJobs, jobs, pollers, notRestore >>

\* handler, lines 349-378: the host commits the PUT and updateScreenplayMetadata
\* is issued with the commit's sha; or the host rejects the PUT (stale sha,
\* transport) and the error is rethrown.
restorePutFile(u) ==
    /\ restoreRun[u].pc = "putFile"
    /\ \/ /\ updateScreenplayFileAccepted(restoreRun[u].headSha[1])
          /\ repo' = updateScreenplayFile(restoreRun[u].targetContent[1])
          /\ restoreRun' = [ restoreRun EXCEPT ![u] =
                [ @ EXCEPT !.pc = "updateMetadata",
                           !.commitSha = Some(CommitSha(Len(repo) + 1)) ] ]
       \/ /\ restoreRun' = [ restoreRun EXCEPT ![u] =
                RestoreRespond(RestoreError(500, "Failed to update screenplay content")) ]
          /\ UNCHANGED repo
    /\ UNCHANGED << recordExists, statusRecords, status, restores, hpBase, hp, externalCommits,
                    shaCleanupJobs, jobs, pollers, notRestore >>

\* Mutant: the update clears the block and leaves the marker for later.
restoreUpdateMetadata_noMarker(u) ==
    /\ restoreRun[u].pc = "updateMetadata"
    /\ \/ /\ applyStatusUpdate([ hp_restore_blocked        |-> FALSE,
                                 hp_restore_blocked_at     |-> Null,
                                 hp_restore_blocked_by     |-> Null,
                                 lastRestoredAt            |-> Some(now),
                                 lastRestoredBy            |-> Some(u),
                                 restoredFrom              |-> Some(restoreRun[u].revisionSha) ])
          /\ restoreRun' = [ restoreRun EXCEPT ![u].pc = "schedule", ![u].cleared = TRUE ]
       \/ /\ restoreRun' = [ restoreRun EXCEPT ![u] = RestoreRespond(RestoreError(500, "store")) ]
          /\ UNCHANGED << recordExists, statusRecords, status >>
    /\ UNCHANGED << restores, hpBase, hp, repo, externalCommits, shaCleanupJobs, jobs, pollers,
                    notRestore >>

\* handler, lines 369-378: the store update that clears the block and records
\* the restore takes effect; or it throws.
restoreUpdateMetadata(u) ==
    /\ restoreRun[u].pc = "updateMetadata"
    /\ \/ /\ applyStatusUpdate([ hp_restore_blocked        |-> FALSE,
                                 hp_restore_blocked_at     |-> Null,
                                 hp_restore_blocked_by     |-> Null,
                                 lastRestoredAt            |-> Some(now),
                                 lastRestoredBy            |-> Some(u),
                                 restoredFrom              |-> Some(restoreRun[u].revisionSha),
                                 latestRestoredCommitSha   |-> restoreRun[u].commitSha,
                                 latestRestoredCommitSetAt |-> Some(now) ])
          /\ restoreRun' = [ restoreRun EXCEPT ![u].pc = "schedule", ![u].cleared = TRUE ]
       \/ /\ restoreRun' = [ restoreRun EXCEPT ![u] = RestoreRespond(RestoreError(500, "store")) ]
          /\ UNCHANGED << recordExists, statusRecords, status >>
    /\ UNCHANGED << restores, hpBase, hp, repo, externalCommits, shaCleanupJobs, jobs, pollers,
                    notRestore >>

\* attemptClear, lines 116-125, run by closure k: without a registry entry it
\* returns; otherwise it holds the entry's job and issues the head read.
\* pollError tells whether the attempt under way has logged
\* restore_sha_poll_error (line 136).
\* << closures >> afterwards, given the registry entry.
attemptClearStart(ps, entry, k) ==
    IF entry = Null
    THEN [ ps EXCEPT ![k].pc = "off" ]
    ELSE [ ps EXCEPT ![k].pc = "head", ![k].currentJob = entry[1], ![k].pollError = FALSE ]

\* handler, lines 380-394: scheduleRestoreShaCleanup (lines 100-178) replaces
\* the registry entry by a new job, its closure starts the first attempt, and
\* unblockHpSessions is issued.
scheduleRestoreShaCleanup(u) ==
    /\ restoreRun[u].pc = "schedule"
    /\ LET cleared == clearScheduledShaJob(shaCleanupJobs, pollers)
           k       == Len(jobs) + 1
           created == Append(cleared[2],
                             [ commitSha  |-> restoreRun[u].commitSha[1],
                               pc         |-> "off",
                               currentJob |-> 0,
                               pollError  |-> FALSE,
                               timers     |-> 0 ])
       IN  /\ jobs' = Append(jobs, [ attempts |-> 0, timeoutId |-> Null ])
           /\ shaCleanupJobs' = Some(k)
           /\ pollers' = attemptClearStart(created, Some(k), k)
    /\ restoreRun' = [ restoreRun EXCEPT ![u].pc = "unblock" ]
    /\ UNCHANGED << recordExists, statusRecords, status, restores, hpBase, hp, repo, externalCommits, notRestore >>

\* unblockHpSessions, lines 65-81, and handler lines 391-401: without a base
\* URL nothing is sent; otherwise the room is unblocked, or the call fails and
\* its error reaches the handler's catch.  On return the handler answers 200.
unblockHpSessions(u) ==
    /\ restoreRun[u].pc = "unblock"
    /\ LET ok == RestoreRespond([ NoRestoreResp EXCEPT
                                    !.status = 200,
                                    !.latestRestoredCommitSha = restoreRun[u].commitSha ])
       IN  \/ /\ ~hpBase
              /\ restoreRun' = [ restoreRun EXCEPT ![u] = ok ]
              /\ UNCHANGED hp
           \/ /\ hpBase
              /\ hp' = [ hp EXCEPT !.blocked = FALSE ]
              /\ restoreRun' = [ restoreRun EXCEPT ![u] = ok ]
           \/ /\ hpBase
              /\ restoreRun' = [ restoreRun EXCEPT ![u] =
                                   RestoreRespond(RestoreError(500, "HP unblock failed")) ]
              /\ UNCHANGED hp
    /\ UNCHANGED << recordExists, statusRecords, status, restores, hpBase, repo, externalCommits,
                    shaCleanupJobs, jobs, pollers, notRestore >>

\* Mutant: a poll that found no match or failed ends the closure.
attemptClearMiss_aborts(js, ps, k) == << js, [ ps EXCEPT ![k].pc = "off" ] >>

\* attemptClear, lines 142-168, after a poll that found no match or failed:
\* the held job counts the attempt; at the limit the markers' clearing is
\* issued, otherwise the closure arms a timer and stores it in the held job.
\* << jobs, closures >> afterwards.
attemptClearMiss(js, ps, k) ==
    LET j    == ps[k].currentJob
        done == js[j].attempts + 1
    IN  IF done >= RESTORE_SHA_MAX_ATTEMPTS
        THEN << [ js EXCEPT ![j].attempts = done ],
                [ ps EXCEPT ![k].pc = "clearExhausted" ] >>
        ELSE << [ js EXCEPT ![j].attempts = done,
                            ![j].timeoutId = Some(<< k, ps[k].timers + 1 >>) ],
                [ ps EXCEPT ![k].pc = "timer", ![k].timers = @ + 1 ] >>

\* attemptClear, lines 120-140: the head metadata arrives; when its sha is the
\* commit sha the closure was created for, the markers' clearing is issued;
\* otherwise, or when the read fails, the attempt is a miss.
pollHead(k) ==
    /\ k \in DOMAIN pollers
    /\ pollers[k].pc = "head"
    /\ \/ /\ getCurrentFileMetadata = pollers[k].commitSha
          /\ pollers' = [ pollers EXCEPT ![k].pc = "clearMatch" ]
          /\ UNCHANGED jobs
       \/ /\ getCurrentFileMetadata # pollers[k].commitSha
          /\ jobs' = attemptClearMiss(jobs, pollers, k)[1]
          /\ pollers' = attemptClearMiss(jobs, pollers, k)[2]
       \/ /\ jobs' = attemptClearMiss(jobs, pollers, k)[1]
          /\ pollers' = [ attemptClearMiss(jobs, pollers, k)[2] EXCEPT ![k].pollError = TRUE ]
    /\ UNCHANGED << recordExists, statusRecords, status, restoreRun, restores, hpBase, hp, repo,
                    externalCommits, shaCleanupJobs, notRestore >>

\* The patch both clearing paths of attemptClear send (lines 127-130, 145-148).
clearMarkers == [ latestRestoredCommitSha |-> Null, latestRestoredCommitSetAt |-> Null ]

\* attemptClear, lines 127-133 and 144-157: the clearing update takes effect
\* and the registry entry is removed; a failed update on the match path is a
\* miss (caught at line 135), on the exhausted path it is only logged.
pollClear(k) ==
    /\ k \in DOMAIN pollers
    /\ pollers[k].pc \in {"clearMatch", "clearExhausted"}
    /\ \/ /\ applyStatusUpdate(clearMarkers)
          /\ shaCleanupJobs' = Null
          /\ pollers' = [ clearScheduledShaJob(shaCleanupJobs, pollers)[2] EXCEPT ![k].pc = "off" ]
          /\ UNCHANGED jobs
       \/ /\ pollers[k].pc = "clearExhausted"
          /\ shaCleanupJobs' = Null
          /\ pollers' = [ clearScheduledShaJob(shaCleanupJobs, pollers)[2] EXCEPT ![k].pc = "off" ]
          /\ UNCHANGED << recordExists, statusRecords, status, jobs >>
       \/ /\ pollers[k].pc = "clearMatch"
          /\ jobs' = attemptClearMiss(jobs, pollers, k)[1]
          /\ pollers' = [ attemptClearMiss(jobs, pollers, k)[2] EXCEPT ![k].pollError = TRUE ]
          /\ UNCHANGED << recordExists, statusRecords, status, shaCleanupJobs >>
    /\ UNCHANGED << restoreRun, restores, hpBase, hp, repo, externalCommits, notRestore >>

\* The timer of lines 160-168 fires: the closure runs attemptClear again.
pollTimer(k) ==
    /\ k \in DOMAIN pollers
    /\ pollers[k].pc = "timer"
    /\ pollers' = attemptClearStart(pollers, shaCleanupJobs, k)
    /\ UNCHANGED << recordExists, statusRecords, status, restoreRun, restores, hpBase, hp, repo,
                    externalCommits, shaCleanupJobs, jobs, notRestore >>

\* Another writer commits new content of the screenplay file to the branch,
\* between the head read and the write of a restore (at any other time the
\* commit only changes which content the restore finds at the head).
externalCommit ==
    /\ externalCommits < MaxExternalCommits
    /\ \E u \in Users : restoreRun[u].pc = "putFile"
    /\ externalCommits' = externalCommits + 1
    /\ repo' = Append(repo, "c")
    /\ UNCHANGED << recordExists, statusRecords, status, restoreRun, restores, hpBase, hp,
                    shaCleanupJobs, jobs, pollers, notRestore >>

RestoreNext ==
    \/ \E u \in Users : restoreHandler(u)
    \/ \E u \in Users : restoreReadStatus(u)
    \/ \E u \in Users : restoreSetLock(u)
    \/ \E u \in Users : destroyHpSessions(u)
    \/ \E u \in Users : restoreReadTarget(u)
    \/ \E u \in Users : restoreReadHead(u)
    \/ \E u \in Users : restorePutFile(u)
    \/ \E u \in Users : restoreUpdateMetadata(u)
    \/ \E u \in Users : scheduleRestoreShaCleanup(u)
    \/ \E u \in Users : unblockHpSessions(u)
    \/ \E k \in 1..MaxRestores : pollHead(k)
    \/ \E k \in 1..MaxRestores : pollClear(k)
    \/ \E k \in 1..MaxRestores : pollTimer(k)
    \/ externalCommit

\* ------------------------------------------------------------ restore unlock

\* The patch of clearScreenplayLock: the block, the convergence markers and
\* the pending-restore markers, all reset in one update.
clearLockPatch ==
    [ hp_restore_blocked        |-> FALSE,
      hp_restore_blocked_at     |-> Null,
      hp_restore_blocked_by     |-> Null,
      latestRestoredCommitSha   |-> Null,
      latestRestoredCommitSetAt |-> Null,
      pendingRestoreSha         |-> Null,
      restoresUpdatedAt         |-> Null,
      restoreError              |-> Null ]

\* clearScreenplayLock(screenplayId): the patch goes through applyStatusUpdate.
clearScreenplayLock == applyStatusUpdate(clearLockPatch)

\* What a step of the unlock handler that only changes its own request leaves.
unlockLocal == << now, recordExists, statusRecords, status, releaseStreak, seededBy, seedMemVars, restoreVars >>

\* restore-lock handler, lines 55-89: an authenticated DELETE arrives and the
\* scripts record is looked up (404 when there is none for the caller);
\* otherwise clearScreenplayLock is issued.
unlockHandler(u) ==
    /\ req[u].pc = "done"
    /\ \/ req' = [ req EXCEPT ![u] =
                     [ IdleReq EXCEPT !.pc = "ulClear", !.api = "restore-lock", !.method = "DELETE" ] ]
       \/ req' = [ req EXCEPT ![u] = Respond(Resp(404, "Screenplay not found")) ]
    /\ UNCHANGED unlockLocal

unlockClear_keepsPending(u) ==
    /\ req[u].pc = "ulClear"
    /\ \/ /\ applyStatusUpdate([ f \in DOMAIN clearLockPatch \ {"pendingRestoreSha", "restoreError"}
                                    |-> clearLockPatch[f] ])
          /\ req' = [ req EXCEPT ![u].pc = "ulHp" ]
       \/ /\ req' = [ req EXCEPT ![u] = Respond(Resp(500, "Failed to clear restore lock")) ]
          /\ UNCHANGED << recordExists, statusRecords, status >>
    /\ UNCHANGED << now, releaseStreak, seededBy, seedMemVars, restoreVars >>

\* handler, lines 90-92: clearScreenplayLock takes effect, whoever set the
\* block and whatever a restore is doing, and unblockHpSessions is issued.
\* Or the update throws (catch, lines 98-100).
unlockClear(u) ==
    /\ req[u].pc = "ulClear"
    /\ \/ /\ clearScreenplayLock
          /\ req' = [ req EXCEPT ![u].pc = "ulHp" ]
       \/ /\ req' = [ req EXCEPT ![u] = Respond(Resp(500, "Failed to clear restore lock")) ]
          /\ UNCHANGED << recordExists, statusRecords, status >>
    /\ UNCHANGED << now, releaseStreak, seededBy, seedMemVars, restoreVars >>

\* unblockHpSessions, lines 36-53, and handler lines 92-97: without a base
\* URL nothing is sent; otherwise the room is unblocked and the handler
\* answers 200, or the call fails and the handler answers 500.
unlockUnblockHp(u) ==
    /\ req[u].pc = "ulHp"
    /\ \/ /\ ~hpBase
          /\ req' = [ req EXCEPT ![u] = Respond(Ok("ok")) ]
          /\ UNCHANGED hp
       \/ /\ hpBase
          /\ hp' = [ hp EXCEPT !.blocked = FALSE ]
          /\ req' = [ req EXCEPT ![u] = Respond(Ok("ok")) ]
       \/ /\ hpBase
          /\ req' = [ req EXCEPT ![u] = Respond(Resp(500, "Failed to clear restore lock")) ]
          /\ UNCHANGED hp
    /\ UNCHANGED << now, recordExists, statusRecords, status, releaseStreak, seededBy, seedMemVars,
                    restoreRun, restores, hpBase, repo, externalCommits,
                    shaCleanupJobs, jobs, pollers >>

\* The caller of the unlock endpoint.
Unlockers == {"u3"}

\* Restores requested by u1 and u2 interleaved with unlock requests of u3;
\* the head reads of the poll jobs get no answer meanwhile.
UnlockNext ==
    \/ \E u \in Unlockers : unlockHandler(u)
    \/ \E u \in Unlockers : unlockClear(u)
    \/ \E u \in Unlockers : unlockUnblockHp(u)
    \/ \E u \in RestoreUsers : restoreHandler(u)
    \/ \E u \in RestoreUsers : restoreReadStatus(u)
    \/ \E u \in RestoreUsers : restoreSetLock(u)
    \/ \E u \in RestoreUsers : destroyHpSessions(u)
    \/ \E u \in RestoreUsers : restoreReadTarget(u)
    \/ \E u \in RestoreUsers : restoreReadHead(u)
    \/ \E u \in RestoreUsers : restorePutFile(u)
    \/ \E u \in RestoreUsers : restoreUpdateMetadata(u)
    \/ \E u \in RestoreUsers : scheduleRestoreShaCleanup(u)
    \/ \E u \in RestoreUsers : unblockHpSessions(u)

\* -------------------------------------------------------------- status init

\* body.fountainSha of a status-init request: the sha of the seeded file.
FountainSha == BlobSha("a")

\* updateLatestCommitSha(screenplayId, sha): the patch it sends (the sha is
\* never empty here; latestCommitSha is not read by any handler).
updateLatestCommitSha(sha, t) ==
    [ latestRestoredCommitSha |-> Some(sha), latestRestoredCommitSetAt |-> Some(t) ]

\* What a step of the status-init handler that only changes its own request
\* leaves.
statusInitLocal == << now, recordExists, statusRecords, status, releaseStreak, seededBy,
                      seedMemVars, restoreVars >>

\* status-init handler, lines 6-44: an authenticated POST with a fountainSha
\* arrives; updateLatestCommitSha -> applyStatusUpdate -> ensureStatusRecord
\* issues the lookup of the status record.
statusInitHandler(u) ==
    /\ req[u].pc = "done"
    /\ req' = [ req EXCEPT ![u] =
                  [ IdleReq EXCEPT !.pc = "siGet", !.api = "status-init", !.method = "POST" ] ]
    /\ UNCHANGED statusInitLocal

\* ensureStatusRecord, lines 59-61: getStatusRecord answers with the first
\* record of the screenplay (record 1), after which the update is issued, or
\* with none, after which the create is issued; or the lookup throws.
statusInitGet(u) ==
    /\ req[u].pc = "siGet"
    /\ \/ /\ statusRecords > 0
          /\ req' = [ req EXCEPT ![u].pc = "siUpdate", ![u].record = 1 ]
       \/ /\ statusRecords = 0
          /\ req' = [ req EXCEPT ![u].pc = "siCreate" ]
       \/ req' = [ req EXCEPT ![u] =
                     Respond(Resp(500, "Failed to initialize screenplay status")) ]
    /\ UNCHANGED statusInitLocal

\* ensureStatusRecord, lines 62-81: the create of a record with the default
\* fields takes effect, whatever records exist by then, and the update of
\* the created record is issued; or the create throws.
statusInitCreate(u) ==
    /\ req[u].pc = "siCreate"
    /\ \/ /\ statusRecords' = statusRecords + 1
          /\ recordExists' = TRUE
          /\ req' = [ req EXCEPT ![u].pc = "siUpdate", ![u].record = statusRecords + 1 ]
       \/ /\ req' = [ req EXCEPT ![u] =
                        Respond(Resp(500, "Failed to initialize screenplay status")) ]
          /\ UNCHANGED << recordExists, statusRecords >>
    /\ UNCHANGED << now, status, releaseStreak, seededBy, seedMemVars, restoreVars >>

\* applyStatusUpdate, lines 108-112, and handler lines 44-54: the update by
\* id takes effect on the record ensureStatusRecord returned (a patch of a
\* record other than record 1 is not what the status reads return) and the
\* handler answers 200; or the update throws.
statusInitUpdate(u) ==
    /\ req[u].pc = "siUpdate"
    /\ \/ /\ status' = IF req[u].record = 1
                         THEN [ f \in DOMAIN status |->
                                  IF f \in DOMAIN updateLatestCommitSha(FountainSha, now)
                                  THEN updateLatestCommitSha(FountainSha, now)[f]
                                  ELSE status[f] ]
                         ELSE status
          /\ req' = [ req EXCEPT ![u] =
                        Respond([ NoResp EXCEPT !.status = 200,
                                                !.flag = "latestRestoredCommitSha" ]) ]
       \/ /\ req' = [ req EXCEPT ![u] =
                        Respond(Resp(500, "Failed to initialize screenplay status")) ]
          /\ UNCHANGED status
    /\ UNCHANGED << now, recordExists, statusRecords, releaseStreak, seededBy,
                    seedMemVars, restoreVars >>

\* First-time updates of a screenplay's status: status-init requests of every
\* caller while time passes.
StatusInitNext ==
    \/ Tick
    \/ \E u \in Users : statusInitHandler(u)
    \/ \E u \in Users : statusInitGet(u)
    \/ \E u \in Users : statusInitCreate(u)
    \/ \E u \in Users : statusInitUpdate(u)

\* The callers of the scenario in which lock requests meet a restore: u1 asks
\* for locks while u2 restores.
LockCallers == {"u1"}
Restorers == {"u2"}

\* Lock requests of u1, a validated collaborator (save lock, persisted seed
\* lock, in-process seed lock), interleaved with restores requested by u2; the head reads of the poll jobs get no answer meanwhile.
BlockedNext ==
    \/ \E u \in LockCallers : saveLockHandler(u)
    \/ \E u \in LockCallers : fetchScreenplayStatus(u)
    \/ \E u \in LockCallers : saveLockAuthorize(u)
    \/ \E u \in LockCallers : saveLockUpdate(u)
    \/ \E u \in LockCallers : seedLockHandler(u)
    \/ \E u \in LockCallers : seedLockReadStatus(u)
    \/ \E u \in LockCallers : seedLockDecide(u)
    \/ \E u \in LockCallers : seedLockUpdate(u)
    \/ \E u \in LockCallers : seedMemHandler(u)
    \/ \E u \in LockCallers : seedMemRun(u)
    \/ \E u \in Restorers : restoreHandler(u)
    \/ \E u \in Restorers : restoreReadStatus(u)
    \/ \E u \in Restorers : restoreSetLock(u)
    \/ \E u \in Restorers : destroyHpSessions(u)
    \/ \E u \in Restorers : restoreReadTarget(u)
    \/ \E u \in Restorers : restoreReadHead(u)
    \/ \E u \in Restorers : restorePutFile(u)
    \/ \E u \in Restorers : restoreUpdateMetadata(u)
    \/ \E u \in Restorers : scheduleRestoreShaCleanup(u)
    \/ \E u \in Restorers : unblockHpSessions(u)

\* The caller that polls the restore status, and the caller that syncs.
StatusReaders == {"u3"}
Syncers == {"u1"}

\* Status polls of u3 interleaved with syncs, validations and in-process seed
\* locks of u1 and with restores of u2; the head reads of the poll jobs get no
\* answer meanwhile.
StatusNext ==
    \/ \E u \in StatusReaders : restoreStatusHandler(u)
    \/ \E u \in StatusReaders : restoreStatusReadStatus(u)
    \/ \E u \in StatusReaders : restoreStatusRespond(u)
    \/ \E u \in Syncers : syncHandler(u)
    \/ \E u \in Syncers : syncReadStatus(u)
    \/ \E u \in Syncers : syncFetchGitHub(u)
    \/ \E u \in Syncers : syncUpdate(u)
    \/ \E u \in Syncers : validateHandler(u)
    \/ \E u \in Syncers : validateGitHubToken(u)
    \/ \E u \in Syncers : validateReadStatus(u)
    \/ \E u \in Syncers : validateUpdate(u)
    \/ \E u \in Syncers : seedMemHandler(u)
    \/ \E u \in Syncers : seedMemRun(u)
    \/ \E u \in Restorers : restoreHandler(u)
    \/ \E u \in Restorers : restoreReadStatus(u)
    \/ \E u \in Restorers : restoreSetLock(u)
    \/ \E u \in Restorers : destroyHpSessions(u)
    \/ \E u \in Restorers : restoreReadTarget(u)
    \/ \E u \in Restorers : restoreReadHead(u)
    \/ \E u \in Restorers : restorePutFile(u)
    \/ \E u \in Restorers : restoreUpdateMetadata(u)
    \/ \E u \in Restorers : scheduleRestoreShaCleanup(u)
    \/ \E u \in Restorers : unblockHpSessions(u)

\* The callers that clear the pending restore marker.
PendingClearers == {"u1", "u3"}

\* PATCH restore-status requests of u1 and u3 interleaved with restores
\* requested by u2; the head reads of the poll jobs get no answer meanwhile.
PendingNext ==
    \/ Tick
    \/ \E u \in PendingClearers : restoreStatusPatchHandler(u)
    \/ \E u \in PendingClearers : restoreStatusPatchRead(u)
    \/ \E u \in PendingClearers : restoreStatusPatchUpdate(u)
    \/ \E u \in Restorers : restoreHandler(u)
    \/ \E u \in Restorers : restoreReadStatus(u)
    \/ \E u \in Restorers : restoreSetLock(u)
    \/ \E u \in Restorers : destroyHpSessions(u)
    \/ \E u \in Restorers : restoreReadTarget(u)
    \/ \E u \in Restorers : restoreReadHead(u)
    \/ \E u \in Restorers : restorePutFile(u)
    \/ \E u \in Restorers : restoreUpdateMetadata(u)
    \/ \E u \in Restorers : scheduleRestoreShaCleanup(u)
    \/ \E u \in Restorers : unblockHpSessions(u)

Next ==
    \/ SaveLockNext
    \/ SeedLockNext
    \/ SeedMemNext
    \/ RestoreNext
    \/ CollabNext
    \/ StatusNext
    \/ UnlockNext
    \/ StatusInitNext
    \/ PendingNext

Spec == Init /\ [][Next]_vars

SaveLockSpec == Init /\ [][SaveLockNext]_vars

SeedLockSpec == SeedLockInit /\ [][SeedLockNext]_vars

SeedMemSpec == Init /\ [][SeedMemNext]_vars

RestoreSpec == RestoreInit /\ [][RestoreNext]_vars

BlockedSpec == Init /\ [][BlockedNext]_vars

CollabSpec == CollabInit /\ [][CollabNext]_vars

StatusSpec == CollabInit /\ [][StatusNext]_vars
UnlockSpec == RestoreInit /\ [][UnlockNext]_vars
StaleBlockSpec == StaleBlockInit /\ [][UnlockNext]_vars
StatusInitSpec == CollabInit /\ [][StatusInitNext]_vars
PendingSpec == PendingInit /\ [][PendingNext]_vars

\* Scheduling of the persisted seed-lock handler: time passes, every await of
\* a request in flight resolves, and clients keep sending acquires.
SeedLockFairness ==
    /\ WF_vars(Tick)
    /\ \A u \in Users :
          /\ WF_vars(seedLockHandler(u) /\ req'[u].method = "POST")
          /\ WF_vars(seedLockReadStatus(u))
          /\ WF_vars(seedLockDecide(u))
          /\ WF_vars(seedLockUpdate(u))

SeedLockFairSpec == SeedLockInit /\ [][SeedLockNext]_vars /\ SeedLockFairness

\* Scheduling of the in-process seed-lock handler: time passes, a due timer
\* fires, and the await of a request in flight resolves.
SeedMemFairness ==
    /\ WF_vars(Tick)
    /\ WF_vars(scheduleLockTimeout)
    /\ \A u \in Users : WF_vars(seedMemRun(u))

SeedMemFairSpec == Init /\ [][SeedMemNext]_vars /\ SeedMemFairness

\* ============================================================== properties
\* The step in which the save-lock handler of user u runs its collaborator
\* gate (line 181) and, past it, the lock logic up to the next await.
GateStep(u) ==
    /\ req[u].api = "save-lock"
    /\ req[u].pc \in {"auth", "added"}
    /\ req'[u].pc \in {"done", "updateLock"}

\* The caller is listed as a collaborator in the status record the handler holds.
Listed(u) == u \in req[u].snap.collaboratorIds \/ u \in req[u].snap.collaborators

\* The lock logic of an acquire / a release runs in this step.
AcquireStep(u) == GateStep(u) /\ Listed(u) /\ req[u].method = "POST"
ReleaseStep(u) == GateStep(u) /\ Listed(u) /\ req[u].method = "DELETE"

\* The step in which the store update of u's acquire / release ends.
UpdateStep(u) == req[u].pc = "updateLock" /\ req'[u].pc = "done"

\* User u's last response grants a save lock valid over [lockedAt, lockExpiry).
Granted(u) == req[u].resp.status = 200 /\ req[u].resp.lockExpiry # Null
GrantedFrom(u) == req[u].resp.lockExpiry[1] - LOCK_EXPIRY_MS
GrantedUntil(u) == req[u].resp.lockExpiry[1]

\* C1: no two users are both granted (HTTP 200) a save lock with overlapping
\* validity periods, unless the first lock was released by its owner before
\* the second grant.  (A user's last response is a grant only while that user
\* has not completed a release since.)
C1_SaveLockMutualExclusion ==
    \A u, v \in Users :
        (u # v /\ Granted(u) /\ Granted(v))
            => (GrantedUntil(u) <= GrantedFrom(v) \/ GrantedUntil(v) <= GrantedFrom(u))

\* C2: an acquire by a collaborator answers 409 lock_conflict with the holder
\* and expiry of the lock it read and writes nothing when that lock's expiry
\* is strictly in the future; otherwise it stores a lock owned by the caller
\* with expiry = now + 15 s and answers 200 with exactly that expiry.
C2_AcquireContract ==
    [][\A u \in Users :
        /\ AcquireStep(u) =>
              LET lock == req[u].snap.saveLock IN
              IF lock # Null /\ lock[1].lockExpiry > now
              THEN /\ req'[u].pc = "done"
                   /\ req'[u].resp = [ status     |-> 409,
                                       flag       |-> "",
                                       reason     |-> "",
                                       error      |-> "lock_conflict",
                                       lockedBy   |-> Some(lock[1].userName),
                                       lockExpiry |-> Some(lock[1].lockExpiry) ]
                   /\ status' = status
              ELSE /\ req'[u].pc = "updateLock"
                   /\ req'[u].newLock = Some([ userId     |-> u,
                                               userName   |-> req[u].displayName,
                                               lockedAt   |-> now,
                                               lockType   |-> req[u].lockType,
                                               lockExpiry |-> now + 15000 ])
        /\ (UpdateStep(u) /\ req[u].method = "POST" /\ req'[u].resp.status = 200) =>
              /\ status'.saveLock = req[u].newLock
              /\ req'[u].resp.lockExpiry = Some(req[u].newLock[1].lockExpiry)
      ]_vars

\* C2 witness: one user was answered 409 lock_conflict while another user's
\* granted lock is the stored one.
C2_Witness ==
    \E u, v \in Users :
        /\ u # v
        /\ req[u].resp.status = 409 /\ req[u].resp.error = "lock_conflict"
        /\ Granted(v)
        /\ status.saveLock # Null /\ status.saveLock[1].userId = v
        /\ req[u].resp.lockExpiry = Some(status.saveLock[1].lockExpiry)

\* C3: a lock that has expired (expiry <= now) and was never released does not
\* block another collaborator: the acquire goes on to store the caller's lock
\* and is answered 200 (500 only when the store update itself fails).
C3_ExpiredLockAcquirable ==
    [][\A u \in Users :
        /\ ( /\ AcquireStep(u)
             /\ req[u].snap.saveLock # Null
             /\ req[u].snap.saveLock[1].userId # u
             /\ req[u].snap.saveLock[1].lockExpiry <= now )
              => /\ req'[u].pc = "updateLock"
                 /\ req'[u].newLock # Null
                 /\ req'[u].newLock[1].userId = u
        /\ (UpdateStep(u) /\ req[u].method = "POST") =>
              \/ /\ req'[u].resp.status = 200
                 /\ status'.saveLock # Null /\ status'.saveLock[1].userId = u
              \/ /\ req'[u].resp.status = 500
                 /\ status' = status
      ]_vars

\* C3 witness: an acquire is about to store its lock over another user's
\* expired, never released lock that is still the stored one.
C3_Witness ==
    \E u \in Users :
        /\ req[u].pc = "updateLock" /\ req[u].method = "POST"
        /\ req[u].snap.saveLock # Null
        /\ req[u].snap.saveLock = status.saveLock
        /\ req[u].snap.saveLock[1].userId # u
        /\ req[u].snap.saveLock[1].lockExpiry <= req[u].newLock[1].lockedAt

\* C4: a release by a collaborator who does not own the lock it read is
\* answered not_lock_owner and writes nothing.
C4_ReleaseNotOwner ==
    [][\A u \in Users :
        ( /\ ReleaseStep(u)
          /\ req[u].snap.saveLock # Null
          /\ req[u].snap.saveLock[1].userId # u )
           => /\ req'[u].pc = "done"
              /\ req'[u].resp.error = "not_lock_owner"
              /\ req'[u].resp.status # 200
              /\ status' = status
      ]_vars

\* C4 witness: a release was answered not_lock_owner and the other user's lock
\* is still stored.
C4_Witness ==
    \E u \in Users :
        /\ req[u].resp.error = "not_lock_owner"
        /\ status.saveLock # Null /\ status.saveLock[1].userId # u

\* C5: release is idempotent: with no lock in the record it read, a release is
\* answered 200 and writes nothing; and after two successful releases in a row
\* by a user, the first of which released that user's lock, no lock is stored.
C5_ReleaseIdempotent ==
    /\ [][\A u \in Users :
            /\ (ReleaseStep(u) /\ req[u].snap.saveLock = Null)
                  => /\ req'[u].pc = "done"
                     /\ req'[u].resp = Ok("success")
                     /\ status' = status
            /\ (ReleaseStep(u) /\ releaseStreak.user = u /\ releaseStreak.n > 0)
                  => /\ req'[u].pc = "done"
                     /\ req'[u].resp.status = 200
         ]_vars
    /\ [](releaseStreak.n > 0 => status.saveLock = Null)

\* C5 witness: the owner has released twice in a row.
C5_Witness == releaseStreak.n = 2

\* C6: a lock with expiry <= now is absent for release too: a release by a
\* collaborator who is not the owner of an expired, never cleared lock is
\* answered 200 as a no-op.
C6_ExpiredLockAbsentForRelease ==
    [][\A u \in Users :
        ( /\ ReleaseStep(u)
          /\ req[u].snap.saveLock # Null
          /\ req[u].snap.saveLock[1].userId # u
          /\ req[u].snap.saveLock[1].lockExpiry <= now )
           => /\ req'[u].pc = "done"
              /\ req'[u].resp.status = 200
              /\ status' = status
      ]_vars

\* C7: an acquire or release by a caller who is not listed as a collaborator
\* (after the optional token-based self-add) is answered 403 not_collaborator
\* at the gate: no request of an unlisted caller reaches the lock logic or the
\* saveLock update.
C7_NotCollaboratorForbidden ==
    /\ [][\A u \in Users :
            (GateStep(u) /\ ~Listed(u))
               => /\ req'[u].pc = "done"
                  /\ req'[u].resp = Resp(403, "not_collaborator")
                  /\ status' = status
         ]_vars
    /\ [](\A u \in Users : req[u].pc = "updateLock" => Listed(u))

\* C7 witness: an unlisted caller was answered 403 while a save lock is stored.
C7_Witness ==
    \E u \in Users :
        /\ req[u].resp = Resp(403, "not_collaborator")
        /\ u \notin status.collaboratorIds
        /\ status.saveLock # Null

\* C8: while u1's lock is unexpired, an acquire by another collaborator is
\* answered 409 lock_conflict with lockedBy naming the holder, and a release by
\* another collaborator is answered 403 not_lock_owner.
C8_EndToEndScenario ==
    [][\A u \in Users :
        ( /\ GateStep(u) /\ Listed(u)
          /\ req[u].snap.saveLock # Null
          /\ req[u].snap.saveLock[1].userId # u
          /\ req[u].snap.saveLock[1].lockExpiry > now )
           => IF req[u].method = "POST"
              THEN /\ req'[u].resp.status = 409
                   /\ req'[u].resp.error = "lock_conflict"
                   /\ req'[u].resp.lockedBy = Some(UserName(req[u].snap.saveLock[1].userId))
              ELSE /\ req'[u].resp.status = 403
                   /\ req'[u].resp.error = "not_lock_owner"
      ]_vars

\* The step in which the persisted seed-lock handler of user u runs its
\* collaborator gate and, past it, the seed-lock logic up to the next await.
SeedGateStep(u) == req[u].pc = "seedAuth" /\ req'[u].pc \in {"done", "seedUpdate"}

\* User u's last response grants the seed lock (and u has not completed a
\* release since).
SeedGranted(u) == req[u].resp.status = 200 /\ req[u].resp.flag = "granted"

\* C9: no two users hold a granted seed lock at the same time.
C9_SeedLockMutualExclusion ==
    \A u, v \in Users : (SeedGranted(u) /\ SeedGranted(v)) => u = v

\* The in-process seed lock is exclusive within one server process: the
\* validity periods of two users' unreleased grants never overlap.
SeedMemMutualExclusion ==
    \A g, h \in memGrants :
        g.user # h.user => (g.until <= h.from \/ h.until <= g.from)

\* C10: a seed-lock acquire by a collaborator whose status read shows the
\* document seeded is answered 409 already_seeded and writes nothing, whoever
\* the caller is; no acquire that read seededAt goes on to the store update.
C10_AlreadySeededDenied ==
    /\ [][\A u \in Users :
            ( /\ SeedGateStep(u) /\ Listed(u) /\ req[u].method = "POST"
              /\ req[u].snap.seededAt # Null )
               => /\ req'[u].pc = "done"
                  /\ req'[u].resp.status = 409
                  /\ req'[u].resp.flag = ""
                  /\ req'[u].resp.reason = "already_seeded"
                  /\ status' = status
         ]_vars
    /\ [](\A u \in Users :
            (req[u].pc = "seedUpdate" /\ req[u].method = "POST")
               => req[u].snap.seededAt = Null)

\* C10 witness: the user whose release marked the document seeded was denied
\* with already_seeded, and the stored seed-lock fields are those the release
\* wrote.
C10_Witness ==
    \E u \in Users :
        /\ seededBy = Some(u)
        /\ req[u].resp.status = 409 /\ req[u].resp.reason = "already_seeded"
        /\ status.seededAt # Null /\ ~status.seedLocked

\* The persisted seed-lock handler answers a caller its status read does not
\* list with 403 not_collaborator and goes on to no store update.
SeedLockGateForbidden ==
    [][\A u \in Users :
         (SeedGateStep(u) /\ ~Listed(u))
            => /\ req'[u].pc = "done"
               /\ req'[u].resp.status = 403
               /\ req'[u].resp.error = "not_collaborator"
               /\ status' = status
      ]_vars

\* The step in which the in-process seed-lock handler of user u runs its
\* lock logic after the status read returned.
SeedMemStep(u) ==
    /\ req[u].pc = "memFetch" /\ req'[u].pc = "done"
    /\ req'[u].resp.status # 500

\* C11: a seed-lock acquire by a caller who is not a collaborator of the
\* document ends with 403 Forbidden and installs no seed lock, in the
\* persisted handler and in the in-process handler alike.
C11_SeedAcquireForbidden ==
    [][\A u \in Users :
         /\ (SeedGateStep(u) /\ ~Listed(u) /\ req[u].method = "POST")
               => /\ req'[u].resp.status = 403
                  /\ status' = status
         /\ ( /\ SeedMemStep(u) /\ req[u].method = "POST"
              /\ ~seedLockIsUserCollaborator(readScreenplayStatus, u) )
               => /\ req'[u].resp.status = 403
                  /\ ~(seedLocks' # Null /\ seedLocks'[1].lockedBy = u)
      ]_vars

\* The step in which a store call of u's persisted seed-lock acquire (the
\* status read or the update) fails and the handler's catch answers.
SeedFailStep(u) ==
    /\ req[u].pc \in {"seedFetch", "seedUpdate"} /\ req[u].method = "POST"
    /\ req'[u].pc = "done" /\ req'[u].resp.status # 200

\* A failed store call of a seed-lock acquire is answered with a 5xx error,
\* never a 409 denial or a grant, and records no seed lock.
SeedAcquireFailsOpen ==
    [][\A u \in Users :
         SeedFailStep(u)
            => /\ req'[u].resp.status >= 500
               /\ req'[u].resp.flag # "granted"
               /\ status' = status
      ]_vars

\* C12: when the dependency of a seed-lock acquire is unreachable the caller
\* gets the service-unavailable error hp_unavailable (503), which is no
\* lock-denial Conflict, and no seed lock is granted or recorded.
C12_SeedAcquireUnavailable ==
    [][\A u \in Users :
         SeedFailStep(u)
            => /\ req'[u].resp.status = 503
               /\ req'[u].resp.error = "hp_unavailable"
               /\ req'[u].resp.flag # "granted"
               /\ status' = status
      ]_vars

\* ------------------------------------------------------- restore properties

\* What a restore can have an effect on: the status record, the room of the
\* session service, the branch and the poll registry.
restoreEffects == << recordExists, status, hp, repo, shaCleanupJobs, jobs, pollers >>

\* C13: a restore request whose status read shows restoreBlock present is
\* answered 409 with blockedAt and blockedBy of that block and has no effect
\* (no store write, no eviction, no source-control call, no poll job); the
\* only other outcome is the 500 of a status read that failed.
C13_RestoreConflict ==
    [][\A u \in Users :
         (restoreRun[u].pc = "readStatus" /\ readScreenplayStatus.hp_restore_blocked
            /\ restoreRun'[u] # restoreRun[u])
            => /\ restoreRun'[u].pc = "done"
               /\ \/ restoreRun'[u].resp =
                        [ status    |-> 409,
                          error     |-> "Restore already in progress",
                          blockedAt |-> status.hp_restore_blocked_at,
                          blockedBy |-> status.hp_restore_blocked_by,
                          latestRestoredCommitSha |-> Null ]
                  \/ restoreRun'[u].resp = RestoreError(500, "store")
               /\ UNCHANGED restoreEffects
      ]_vars

\* C13 witness: u was answered 409 naming the block another caller's restore
\* set, and that block is still the stored one.
C13_Witness ==
    \E u, v \in Users :
        /\ u # v
        /\ restoreRun[u].resp.status = 409
        /\ restoreRun[u].resp.blockedBy = Some(v)
        /\ status.hp_restore_blocked
        /\ status.hp_restore_blocked_by = Some(v)
        /\ restoreRun[v].pc \notin {"done", "readStatus", "setLock"}

\* The step in which u's run has the session service destroy the room's
\* sessions / has the host commit the restored content.
EvictStep(u) == restoreRun[u].pc = "destroy" /\ restoreRun'[u].pc # "destroy" /\ hpBase
WriteStep(u) == restoreRun[u].pc = "putFile" /\ repo' # repo

\* C14: write-ahead blocking.  A run requests the eviction of the sessions,
\* and writes content to the branch, only after its own store write of
\* restoreBlock has completed.
C14_WriteAheadBlock ==
    [][\A u \in Users :
         (EvictStep(u) \/ WriteStep(u)) => restoreRun[u].blockSet
      ]_vars

\* C14 witness: a run has evicted the sessions and written the restored
\* content, and the block it wrote first is the stored one.
C14_Witness ==
    \E u \in Users :
        /\ restoreRun[u].pc = "updateMetadata"
        /\ restoreRun[u].blockSet
        /\ hp = [ sessions |-> FALSE, blocked |-> TRUE ]
        /\ Len(repo) > 2
        /\ status.hp_restore_blocked /\ status.hp_restore_blocked_by = Some(u)

\* C15: whatever the outcome of the session-eviction call, the restore goes
\* on: the run is not answered at that point, it reads the target revision next.
C15_EvictionFailureTolerated ==
    [][\A u \in Users :
         (restoreRun[u].pc = "destroy" /\ restoreRun'[u] # restoreRun[u])
            => restoreRun'[u].pc = "readTarget"
      ]_vars

\* The step in which a source-control call of u's run (the read of the target
\* revision, the read of the head, the PUT) fails and the handler answers.
GithubFailStep(u) ==
    /\ restoreRun[u].pc \in {"readTarget", "readHead", "putFile"}
    /\ restoreRun'[u].pc = "done"

\* C16: a failed source-control read or write ends the run with a 500 and the
\* run touches neither the status record nor the poll registry: the block
\* is not cleared, no marker recorded, no job registered.  When no other
\* restore ever ran, restoreBlock is then the block this run set, there is no
\* latestRestoredCommitSha and no poll job.
C16_GithubFailureFailsClosed ==
    [][\A u \in Users :
         GithubFailStep(u)
            => /\ restoreRun'[u].resp.status = 500
               /\ restoreRun'[u].resp.latestRestoredCommitSha = Null
               /\ UNCHANGED << recordExists, status, shaCleanupJobs, jobs, pollers >>
               /\ restores = 1
                    => /\ status'.hp_restore_blocked
                       /\ status'.hp_restore_blocked_by = Some(u)
                       /\ status'.latestRestoredCommitSha = Null
                       /\ shaCleanupJobs' = Null /\ jobs' = << >>
      ]_vars

\* C16 witness: the only restore that was requested ended with the 500 of a
\* rejected PUT; the block it set is stored, no marker, no poll job.
C16_Witness ==
    \E u \in Users :
        /\ restores = 1
        /\ restoreRun[u].pc = "done"
        /\ restoreRun[u].resp = RestoreError(500, "Failed to update screenplay content")
        /\ status.hp_restore_blocked /\ status.hp_restore_blocked_by = Some(u)
        /\ status.latestRestoredCommitSha = Null
        /\ shaCleanupJobs = Null

\* The step in which u's run, having passed the conflict check, is answered.
RestoreEndStep(u) ==
    /\ restoreRun[u].pc \notin {"done", "readStatus"}
    /\ restoreRun'[u].pc = "done"

\* C17: when a restore that passed the conflict check is answered, restoreBlock
\* is absent and either the run has written the content, or it has not and the
\* caller is given an error.
C17_RestoreEndStates ==
    [][\A u \in Users :
         RestoreEndStep(u)
            => /\ ~status'.hp_restore_blocked
               /\ \/ restoreRun[u].commitSha # Null
                  \/ /\ restoreRun[u].commitSha = Null
                     /\ restoreRun'[u].resp.status >= 400
      ]_vars

\* C18: a run that has set restoreBlock is answered 500 only by a step that
\* attempts an unblock (the store update that clears restoreBlock, or the
\* unblock call to the session service): a failure of any earlier call is
\* followed by such an attempt before the request ends.
C18_CompensatingUnblock ==
    [][\A u \in Users :
         ( /\ RestoreEndStep(u)
           /\ restoreRun[u].blockSet
           /\ restoreRun'[u].resp.status = 500 )
            => restoreRun[u].pc \in {"updateMetadata", "unblock"}
      ]_vars

\* The step in which u's run, having set restoreBlock, is answered 500.
RestoreFailStep(u) ==
    /\ RestoreEndStep(u)
    /\ restoreRun[u].blockSet
    /\ restoreRun'[u].resp.status = 500

C20_AtomicClearAndRecord ==
    [][\A u \in Users :
         /\ (restoreRun[u].pc = "updateMetadata" /\ restoreRun'[u].pc = "schedule")
               => /\ restoreRun[u].commitSha # Null
                  /\ ~status'.hp_restore_blocked
                  /\ status'.latestRestoredCommitSha = restoreRun[u].commitSha
                  /\ UNCHANGED << hp, shaCleanupJobs, jobs, pollers >>
         /\ ( /\ restoreRun'[u] # restoreRun[u]
              /\ status.hp_restore_blocked /\ ~status'.hp_restore_blocked )
               => /\ restoreRun[u].pc = "updateMetadata"
                  /\ status'.latestRestoredCommitSha = restoreRun[u].commitSha
         /\ ( /\ restoreRun[u].pc \in {"schedule", "unblock"}
              /\ restoreRun'[u] # restoreRun[u] )
               => /\ restoreRun[u].cleared
                  /\ UNCHANGED << recordExists, status >>
      ]_vars

\* C20 witness: a run was answered 500 for the final unblock call; restoreBlock
\* is absent, the marker of its commit is recorded and its poll job registered.
C20_Witness ==
    \E u \in Users :
        /\ restoreRun[u].resp = RestoreError(500, "HP unblock failed")
        /\ ~status.hp_restore_blocked
        /\ status.lastRestoredBy = Some(u)
        /\ status.latestRestoredCommitSha = Some(CommitSha(Len(repo)))
        /\ shaCleanupJobs # Null

\* C21: the head hash a run sends with its write is the hash of the head it
\* read itself; the write is accepted only when that hash is still the head's,
\* and then the branch gains exactly one revision, with the content of the
\* target revision; when the head's hash has changed since the read the write
\* is rejected, the run is answered 500 and the branch is as it was.  No other
\* step of a run writes to the branch, and a run answered 200 has written.
C21_RestoreWrite ==
    [][\A u \in Users :
         LET run  == restoreRun[u]
             head == BlobSha(repo[Len(repo)])
         IN  /\ (run.pc = "readHead" /\ restoreRun'[u].pc = "putFile")
                   => restoreRun'[u].headSha = Some(head)
             /\ (run.pc = "putFile" /\ restoreRun'[u] # run)
                   => IF restoreRun'[u].pc = "updateMetadata"
                      THEN /\ run.headSha = Some(head)
                           /\ repo' = Append(repo, repo[run.revisionSha])
                           /\ restoreRun'[u].commitSha = Some(CommitSha(Len(repo')))
                      ELSE /\ restoreRun'[u].pc = "done"
                           /\ restoreRun'[u].resp.status = 500
                           /\ repo' = repo
             /\ (run.pc = "putFile" /\ restoreRun'[u] # run /\ run.headSha # Some(head))
                   => /\ restoreRun'[u].resp.status = 500
                      /\ repo' = repo
             /\ (run.pc # "putFile" /\ restoreRun'[u] # run) => repo' = repo
             /\ (run.pc # "done" /\ restoreRun'[u].resp.status = 200)
                   => /\ run.commitSha # Null
                      /\ repo[run.commitSha[1][2]] = repo[run.revisionSha]
      ]_vars

\* C21 witness: two restores ran; another writer committed while u's write was
\* pending, so u's write was rejected and u answered 500; v read the head after
\* that commit and its write made the one revision above it, with the content
\* of v's target revision.
C21_Witness ==
    \E u, v \in Users :
        /\ u # v
        /\ restoreRun[u].resp = RestoreError(500, "Failed to update screenplay content")
        /\ restoreRun[v].resp.status = 200
        /\ restoreRun[v].resp.latestRestoredCommitSha = Some(CommitSha(4))
        /\ externalCommits = 1
        /\ repo = << "a", "b", "c", repo[status.restoredFrom[1]] >>
        /\ status.lastRestoredBy = Some(v)

\* ------------------------------------------- restoreBlock and the lock managers

\* The step in which u is granted the save lock / the persisted seed lock /
\* the in-process seed lock.
SaveLockGrantStep(u) ==
    /\ req[u].pc = "updateLock" /\ req[u].method = "POST"
    /\ req'[u].resp.status = 200
SeedLockGrantStep(u) ==
    /\ req[u].pc = "seedUpdate" /\ req[u].method = "POST"
    /\ req'[u].resp.flag = "granted"
SeedMemGrantStep(u) ==
    /\ req[u].pc = "memFetch" /\ req[u].method = "POST"
    /\ req'[u].resp.flag = "granted"

\* C22: no save lock and no persisted seed lock is granted to a request whose
\* status read showed restoreBlock while restoreBlock is still set, and no
\* in-process seed lock is granted by a step whose status read shows
\* restoreBlock.
C22_BlockRejectsLocks ==
    [][\A u \in Users :
         /\ (SaveLockGrantStep(u) \/ SeedLockGrantStep(u))
               => ~(req[u].snap.hp_restore_blocked /\ status.hp_restore_blocked)
         /\ SeedMemGrantStep(u) => ~readScreenplayStatus.hp_restore_blocked
      ]_vars

\* -------------------------------------------------- convergence-poll properties

\* C23: once a newer job is registered for the document, the closure of an
\* older job does nothing any more: it reads no head, counts no attempt, arms
\* no timer and writes neither the registry nor the store.  All that can
\* still happen to it is the end of its pending timer (cancelled, or fired
\* and returning at once).
C23_SingleLiveJob ==
    [][\A k \in DOMAIN pollers :
         (Len(jobs) > k /\ pollers'[k] # pollers[k])
            => /\ pollers[k].pc = "timer"
               /\ pollers'[k].pc = "off"
               /\ \/ Len(jobs') > Len(jobs)
                  \/ UNCHANGED << recordExists, status, shaCleanupJobs, jobs >>
      ]_vars

\* The step in which closure k ends its job: the clearing update of the match
\* path or of the exhausted path has returned and the closure is done.
PollEndStep(k) ==
    /\ pollers[k].pc \in {"clearMatch", "clearExhausted"}
    /\ pollers'[k].pc = "off"

\* C24: no job counts more than RESTORE_SHA_MAX_ATTEMPTS polls, and when a
\* closure ends its job, on the match path or on the exhausted path, the store
\* holds neither latestRestoredCommitSha nor latestRestoredCommitSetAt.
C24_PollTerminatesAndClears ==
    [][/\ \A j \in DOMAIN jobs' : jobs'[j].attempts <= RESTORE_SHA_MAX_ATTEMPTS
       /\ \A k \in DOMAIN pollers :
             PollEndStep(k)
                => /\ status'.latestRestoredCommitSha = Null
                   /\ status'.latestRestoredCommitSetAt = Null
      ]_vars

\* The step in which the head read of closure k's poll fails (the error is
\* caught and logged).
PollErrorStep(k) ==
    /\ pollers[k].pc = "head"
    /\ pollers'[k].pc # "head"
    /\ pollers'[k].pollError

\* C25: a failed head read counts one attempt on the job the closure holds
\* and touches neither the store nor the registry; below the attempt limit
\* the closure arms a timer for its next poll and stores it in the job, and at
\* the limit it goes on to the clearing of the markers.
C25_PollErrorConsumesAttempt ==
    [][\A k \in DOMAIN pollers :
         PollErrorStep(k)
            => LET j == pollers[k].currentJob
               IN  /\ jobs'[j].attempts = jobs[j].attempts + 1
                   /\ \A i \in DOMAIN jobs : i # j => jobs'[i] = jobs[i]
                   /\ UNCHANGED << recordExists, status, shaCleanupJobs >>
                   /\ IF jobs[j].attempts + 1 < RESTORE_SHA_MAX_ATTEMPTS
                      THEN /\ pollers'[k].pc = "timer"
                           /\ pollers'[k].timers = pollers[k].timers + 1
                           /\ jobs'[j].timeoutId = Some(<< k, pollers'[k].timers >>)
                      ELSE pollers'[k].pc = "clearExhausted"
      ]_vars

\* C25 witness: the head read of a job's second poll failed; the job, still
\* registered, has counted two attempts and the closure waits on the timer of
\* its third poll.
C25_Witness ==
    \E k \in DOMAIN pollers :
        /\ pollers[k].pollError
        /\ pollers[k].pc = "timer"
        /\ shaCleanupJobs = Some(k)
        /\ jobs[k].attempts = 2
        /\ jobs[k].timeoutId = Some(<< k, 2 >>)

\* --------------------------------------------------- collaborator properties

\* The local user ids that can be derived from a roster: the users whose
\* GitHub account is listed in it.
DerivedIds(collaborators) == { u \in Users : GithubIdOf(u) \in collaborators }

\* C26: in every state the stored collaboratorIds are the ids derivable from
\* the stored collaborators.
C26_NoCollaboratorDrift ==
    status.collaboratorIds = DerivedIds(status.collaborators)

\* ---------------------------------------------------- status record lifecycle

\* The step in which a status read of u's request returns / a store update of
\* u's request takes effect.
StatusReadStep(u) ==
    \/ req[u].pc \in {"rsRead", "syncRead", "valRead", "memFetch"} /\ req'[u] # req[u]
    \/ restoreRun[u].pc = "readStatus" /\ restoreRun'[u] # restoreRun[u]
StatusWriteStep(u) ==
    \/ req[u].pc \in {"syncUpdate", "valUpdate"} /\ req'[u].resp.status = 200
    \/ restoreRun[u].pc = "setLock" /\ restoreRun'[u].pc = "destroy"
    \/ restoreRun[u].pc = "updateMetadata" /\ restoreRun'[u].pc = "schedule"

\* C27: without a record nothing is stored; the record appears only in a step
\* in which a store update of some request takes effect, and stays; a status
\* read never creates or changes the record and hands the defaults to the
\* handler when there is no record; the restore-status GET that read them
\* reports not blocked and no markers, and creates nothing either.
C27_LazyStatusRecord ==
    [][/\ ~recordExists => status = DefaultStatus
       /\ recordExists => recordExists'
       /\ (status' # status \/ recordExists' # recordExists)
             => /\ recordExists'
                /\ \E u \in Users : StatusWriteStep(u)
       /\ \A u \in Users :
             /\ StatusReadStep(u)
                   => /\ UNCHANGED << recordExists, status >>
                      /\ (~recordExists /\ req'[u].pc \in {"rsHp", "syncFetch"})
                            => req'[u].snap = DefaultStatus
             /\ (req[u].pc = "rsHp" /\ req'[u] # req[u])
                   => /\ UNCHANGED << recordExists, status >>
                      /\ req'[u].resp.status = 200
                      /\ req[u].snap = DefaultStatus
                            => /\ ~req'[u].resp.blocked
                               /\ req'[u].resp.blockedAt = Null
                               /\ req'[u].resp.blockedBy = Null
                               /\ req'[u].resp.latestRestoredCommitSha = Null
                               /\ req'[u].resp.latestRestoredCommitSetAt = Null
      ]_vars

\* C27 witness: u's restore-status GET read the status while there was no
\* record and was answered with the defaults; the record was created
\* afterwards by the first sync, which stored the roster.
C27_Witness ==
    \E u \in Users :
        /\ req[u].resp = restoreStatusBody(DefaultStatus, TRUE)
        /\ recordExists
        /\ status = [ DefaultStatus EXCEPT !.collaborators = {"g1", "g2"} ]

\* ------------------------------------------------- save lock: no renewal

\* The step in which the save-lock handler decides an acquire of u whose
\* status read shows a lock of u that has not expired by the handler's clock.
OwnerAcquireStep(u) ==
    /\ AcquireStep(u)
    /\ req[u].snap.saveLock # Null
    /\ req[u].snap.saveLock[1].userId = u
    /\ req[u].snap.saveLock[1].lockExpiry > now

\* The acquire of an owner whose lock has not expired is answered 409 with
\* the lock's expiry and writes nothing.
OwnerAcquireConflicts ==
    [][\A u \in Users :
         OwnerAcquireStep(u)
            => /\ req'[u].resp.status = 409
               /\ req'[u].resp.error = "lock_conflict"
               /\ req'[u].resp.lockExpiry = Some(req[u].snap.saveLock[1].lockExpiry)
               /\ UNCHANGED << recordExists, status >>
      ]_vars

\* C28: the acquire of an owner whose lock has not expired is answered 409
\* and writes nothing, and while a stored lock's expiry is in the future no
\* step stores a lock with another expiry: the lock is at most released.
C28_NoExtension ==
    [][/\ \A u \in Users :
             OwnerAcquireStep(u)
                => /\ req'[u].resp.status = 409
                   /\ UNCHANGED << recordExists, status >>
       /\ ( /\ status.saveLock # Null
            /\ status.saveLock[1].lockExpiry > now
            /\ status'.saveLock # Null )
             => status'.saveLock[1].lockExpiry = status.saveLock[1].lockExpiry
      ]_vars

\* ------------------------------------------ save lock: release by owner only

\* The step in which u's release performs its store write.
ReleaseWriteStep(u) ==
    /\ UpdateStep(u)
    /\ req[u].api = "save-lock"
    /\ req[u].method = "DELETE"
    /\ req'[u].resp.status = 200

\* C29: the store write of a release issued by u never removes a lock owned
\* by another user: a lock stored for another user when the write happens is
\* still stored after it.
C29_ReleaseKeepsOthersLock ==
    [][\A u \in Users :
         ( /\ ReleaseWriteStep(u)
           /\ status.saveLock # Null
           /\ status.saveLock[1].userId # u )
            => status'.saveLock = status.saveLock
      ]_vars

\* ------------------------------------------------ restore: one run at a time

\* u's restore run is between "block set" and "block cleared": its
\* setScreenplayLock has taken effect and neither its clearing update has nor
\* the run has ended.
RestoreInProgress(u) ==
    /\ restoreRun[u].pc # "done"
    /\ restoreRun[u].blockSet
    /\ ~restoreRun[u].cleared

\* C30: two restore runs are never both between "block set" and "block
\* cleared", whatever the interleaving of restore and unlock requests.
C30_SingleRestoreInProgress ==
    \A u, v \in Users :
        (RestoreInProgress(u) /\ RestoreInProgress(v)) => u = v

\* ------------------------------------------- poll job: whose marker it clears

\* The step in which closure k's clearing update (match path or exhausted
\* path) takes effect on a stored marker.
PollClearsMarkerStep(k) ==
    /\ k \in DOMAIN pollers
    /\ pollers[k].pc \in {"clearMatch", "clearExhausted"}
    /\ pollers'[k].pc = "off"
    /\ status.latestRestoredCommitSha # Null
    /\ status'.latestRestoredCommitSha = Null

\* C31: a convergence-poll job nulls latestRestoredCommitSha only when the
\* stored value is the commit sha the job was registered for.
C31_PollClearsOwnMarker ==
    [][\A k \in 1..MaxRestores :
         PollClearsMarkerStep(k)
            => status.latestRestoredCommitSha = Some(pollers[k].commitSha)
      ]_vars

\* -------------------------------------------------- seed lock: seeded for good

\* C32: once seededAt is stored, no step of any seed-lock request resets it
\* to null.
C32_SeededStays ==
    [][status.seededAt # Null => status'.seededAt # Null]_vars

\* --------------------------------------- in-process seed lock: timers and TTL

\* Every armed TTL timer is the one the entry held by the Map scheduled.
SeedTimersOwned ==
    seedTimers = IF seedLocks = Null THEN {} ELSE {seedLocks[1].timer}

\* A step that removes or replaces the entry the Map holds.
SeedEntryEndStep == seedLocks # Null /\ seedLocks' # seedLocks

\* The step in which u's in-process release clears u's own entry.
SeedMemOwnerReleaseStep(u) ==
    /\ seedLocks[1].lockedBy = u
    /\ req[u].pc = "memFetch"
    /\ req[u].method = "DELETE"
    /\ req'[u].resp = Ok("cleared")

\* C33: a TTL timer that is armed belongs to the entry the Map holds, so a
\* timer only clears the entry that scheduled it, and an entry is removed
\* only once its TTL has elapsed or by its owner's release.
C33_TimerClearsOwnLock ==
    /\ []SeedTimersOwned
    /\ [][SeedEntryEndStep
            => \/ seedLocks[1].expiresAt <= now
               \/ \E u \in Users : SeedMemOwnerReleaseStep(u)
         ]_vars

\* C33 witness: a lock granted at time 0 expired and was cleared on access,
\* a fresh lock was granted at its expiry time, and the fresh lock is held
\* with its own timer although the first lock's timer would be due.
C33_Witness ==
    /\ seedLocks # Null
    /\ seedLocks[1].lockedAt = LOCK_TTL_MS
    /\ now = LOCK_TTL_MS
    /\ seedTimers = {2 * LOCK_TTL_MS}
    /\ \E g \in memGrants : g.from = 0 /\ g.user # seedLocks[1].lockedBy

\* ------------------------------------------ seed lock: no blocking forever

\* The persisted seed lock is held by u.
SeedHeldBy(u) ==
    /\ recordExists
    /\ status.seedLocked
    /\ status.seedLockedBy = Some(u)

\* A release request of u is in flight.
SeedReleaseCalled(u) ==
    /\ req[u].api = "seed-lock"
    /\ req[u].method = "DELETE"
    /\ req[u].pc # "done"

\* C34: a seed lock held by u whose holder does not call release sooner or
\* later stops being held by u, as a grant to another collaborator requires.
C34_SeedLockExpires ==
    \A u \in Users :
        SeedHeldBy(u) ~> (SeedReleaseCalled(u) \/ ~SeedHeldBy(u))

\* The in-process Map holds the entry u was granted at time t.
SeedMemHeld(u, t) ==
    /\ seedLocks # Null
    /\ seedLocks[1].lockedBy = u
    /\ seedLocks[1].lockedAt = t

\* The in-process seed lock does expire: an entry whose TTL ends within the
\* modelled time is removed, with or without a release.
SeedMemLockExpires ==
    \A u \in Users : \A t \in {0, TickMs} :
        (t + LOCK_TTL_MS <= MaxTime /\ SeedMemHeld(u, t)) ~> ~SeedMemHeld(u, t)

\* ------------------------------------------ seed lock: release by non-owner

\* The step in which the in-process handler answers u's release (the status
\* read did not throw).
SeedMemReleaseStep(u) ==
    /\ req[u].pc = "memFetch"
    /\ req[u].method = "DELETE"
    /\ req'[u].pc = "done"
    /\ req'[u].resp.status # 500

\* A seed lock is held: the Map has an entry whose expiry is in the future.
SeedMemLockHeld == seedLocks # Null /\ seedLocks[1].expiresAt > now

\* C35: a release by a user who does not own the held seed lock is answered
\* 403 not_lock_owner and leaves the entry (owner, expiry, timer) and the
\* armed timers as they are; a release when no lock is held is answered
\* cleared, changes nothing when the Map has no entry, and leaves no lock.
C35_ReleaseByNonOwner ==
    [][\A u \in Users :
         SeedMemReleaseStep(u)
            => /\ ( SeedMemLockHeld /\ seedLocks[1].lockedBy # u )
                     => /\ req'[u].resp = Resp(403, "not_lock_owner")
                        /\ UNCHANGED << seedLocks, seedTimers, recordExists, status >>
               /\ ~SeedMemLockHeld
                     => /\ req'[u].resp = Ok("cleared")
                        /\ seedLocks' = Null
                        /\ seedLocks = Null => UNCHANGED seedTimers
                        /\ UNCHANGED << recordExists, status >>
      ]_vars

\* C35 witness: u's release was refused as not_lock_owner and the lock of
\* the other user is still held with its timer armed.
C35_Witness ==
    \E u \in Users :
        /\ req[u].resp = Resp(403, "not_lock_owner")
        /\ SeedMemLockHeld
        /\ seedLocks[1].lockedBy # u
        /\ seedTimers = {seedLocks[1].timer}

\* The persisted handler, on the status it read: a collaborator's release of
\* a lock stored for another user is answered 403 not_lock_owner, a release
\* when seedLocked is not set is answered cleared, and neither writes.
SeedLockReleaseByNonOwner ==
    [][\A u \in Users :
         ( /\ req[u].pc = "seedAuth"
           /\ req[u].method = "DELETE"
           /\ req'[u] # req[u]
           /\ seedLockIsUserCollaborator(req[u].snap, u) )
            => /\ ( req[u].snap.seedLocked /\ req[u].snap.seedLockedBy # Some(u) )
                     => req'[u] = Respond(Resp(403, "not_lock_owner"))
               /\ ~req[u].snap.seedLocked
                     => req'[u] = Respond(Ok("cleared"))
               /\ UNCHANGED << recordExists, status >>
      ]_vars

\* ----------------------------------------------- status store: one record

\* C36: at most one status record exists for the screenplay, whatever the
\* interleaving of first-time updates.
C36_OneStatusRecord == statusRecords <= 1

\* ------------------------------------------ collaboratorIds: no lost addition

\* C37: an id added to collaboratorIds by a validation or a self-add is never
\* lost: no step of a validation, a self-add or a sync stores a list that
\* lacks an id the stored list had.
C37_NoLostAddition ==
    [][status.collaboratorIds \subseteq status'.collaboratorIds]_vars

\* ------------------------------------------- restore status: clear pending

\* The step in which the handler decides u's PATCH on the status it read.
ClearPendingDecideStep(u) ==
    /\ req[u].pc = "rpRead"
    /\ req'[u] # req[u]
    /\ req'[u].resp.status # 500

\* The step in which the store update of u's PATCH takes effect.
ClearPendingUpdateStep(u) ==
    /\ req[u].pc = "rpUpdate"
    /\ req'[u].pc = "done"
    /\ req'[u].resp.status # 500

\* C38: a PATCH with clearPending is answered 200 without a write when no
\* pendingRestoreSha is stored, 409 with the stored sha without a write when
\* it names another sha, and otherwise its update nulls pendingRestoreSha and
\* restoreError and leaves every other field but restoresUpdatedAt, the
\* restore block and latestRestoredCommitSha among them, as it was.
C38_ClearPending ==
    [][\A u \in Users :
         /\ ClearPendingDecideStep(u)
               => /\ UNCHANGED << recordExists, statusRecords, status >>
                  /\ readScreenplayStatus.pendingRestoreSha = Null
                        => /\ req'[u].pc = "done"
                           /\ req'[u].resp.status = 200
                           /\ req'[u].resp.pendingRestoreSha = Null
                  /\ ( /\ readScreenplayStatus.pendingRestoreSha # Null
                       /\ req[u].sha # Null
                       /\ req[u].sha # readScreenplayStatus.pendingRestoreSha )
                        => /\ req'[u].pc = "done"
                           /\ req'[u].resp.status = 409
                           /\ req'[u].resp.pendingRestoreSha = status.pendingRestoreSha
                  /\ ( /\ readScreenplayStatus.pendingRestoreSha # Null
                       /\ req[u].sha \in {Null, readScreenplayStatus.pendingRestoreSha} )
                        => req'[u].pc = "rpUpdate"
         /\ ClearPendingUpdateStep(u)
               => /\ req'[u].resp.status = 200
                  /\ status' = [ readScreenplayStatus EXCEPT
                                   !.pendingRestoreSha = Null,
                                   !.restoreError      = Null,
                                   !.restoresUpdatedAt = Some(now) ]
      ]_vars

\* C38 witness: u's PATCH cleared the pending marker p1 and its error while
\* a restore held the block, and the block is still stored.
C38_Witness ==
    \E u \in Users :
        /\ req[u].resp = pendingCleared(Some(now))
        /\ status.pendingRestoreSha = Null
        /\ status.restoreError = Null
        /\ status.restoresUpdatedAt = Some(now)
        /\ status.hp_restore_blocked
        /\ status.hp_restore_blocked_by = Some("u2")

\* A PATCH naming another sha than the stored one was refused and the marker
\* is still stored.
ClearPendingRefused ==
    \E u \in Users :
        /\ req[u].resp = pendingMismatch(Some("p1"))
        /\ status.pendingRestoreSha = Some("p1")

\* C39: the unlock operation clears the block and every transient restore
\* marker in one store update, issued before the session-service unblock
\* request (the session service is untouched by that step); when the
\* session-service call then fails the cleared record stays as it is, and a
\* restore that reads the record after the update is accepted.
UnlockStoreUpdateStep(u) == req[u].pc = "ulClear" /\ req'[u].pc = "ulHp"

UnlockSessionStep(u) == req[u].pc = "ulHp" /\ req'[u].pc = "done"

RestoreMarkersCleared(s) ==
    /\ ~s.hp_restore_blocked
    /\ s.hp_restore_blocked_at = Null
    /\ s.hp_restore_blocked_by = Null
    /\ s.latestRestoredCommitSha = Null
    /\ s.latestRestoredCommitSetAt = Null
    /\ s.pendingRestoreSha = Null
    /\ s.restoreError = Null

C39_UnlockClearsBeforeUnblock ==
    [][ /\ \A u \in Users :
              UnlockStoreUpdateStep(u) =>
                  /\ RestoreMarkersCleared(status')
                  /\ hp' = hp
        /\ \A u \in Users :
              UnlockSessionStep(u) => (status' = status /\ recordExists' = recordExists)
        /\ \A v \in Users :
              (/\ restoreRun[v].pc = "readStatus"
               /\ restoreRun'[v].pc # "readStatus"
               /\ RestoreMarkersCleared(status)) =>
                  \/ restoreRun'[v].pc = "setLock"
                  \/ restoreRun'[v].resp = RestoreError(500, "store") ]_vars

\* The stale block was cleared, the session-service call failed (the room is
\* still blocked and the unlock was answered 500), and the one restore that
\* was requested has been accepted and has written its own block.
C39_Witness ==
    /\ req["u3"].resp = Resp(500, "Failed to clear restore lock")
    /\ hp.blocked
    /\ status.pendingRestoreSha = Null
    /\ status.restoreError = Null
    /\ restores = 1
    /\ \E v \in RestoreUsers :
          /\ restoreRun[v].pc = "destroy"
          /\ restoreRun[v].blockSet
          /\ status.hp_restore_blocked_by = Some(v)

====
